---- MODULE Spec2Model ----
(***************************************************************************)
(* The migration pipeline of indico-migrate: the driver loop of            *)
(* migrate.py over the fixed list of top-level steps, the                  *)
(* MigrationStateManager (completed-step list, restore points), the global *)
(* SharedNamespace, the destination session/store, and the events step's   *)
(* per-event loop.  One OS process runs the pipeline at a time; a later    *)
(* process may resume from the restore file an earlier one saved.          *)
(***************************************************************************)
EXTENDS Integers, Sequences, FiniteSets, TLC

VARIABLES
    pc,           \* position of the running process in cli()/migrate()
    cfg,          \* command line of the running process
    runs,         \* number of processes started so far
    idx,          \* index of the driver's `for step in steps` loop
    unit,         \* work units of the current step already performed
    phase,        \* position inside the current step's migrate()
    m_steps,      \* MigrationStateManager._steps
    ns_stores,    \* Importer._global_ns._stores
    ns_attrs,     \* instance attributes of the global namespace object
    session,      \* db.session: rows added and not yet committed
    db,           \* the destination store: committed rows
    dbPrepared,   \* the destination store has its tables
    triggers,     \* tables whose consistent_timetable trigger is enabled
    restoreFile,  \* content of the restore file on disk
    invoked,      \* steps whose run() was invoked by this process, in order
    failed,       \* what raised in this process: "none", "load" or a step
    loaded,       \* data handed to load_restore_point by this process
    dbAtStart,    \* committed rows when this process started
    evCreated,    \* events this process ran create_event for
    fileOrigin,   \* what had raised, and with which sources, when the file was saved
    resumedFrom,  \* fileOrigin of the restore file this process loaded
    zodb,         \* which legacy graph is being migrated
    mig,          \* inner loops of the events step: tables whose trigger was
                  \* switched off, then migrators run for the current conference
    event_ns,     \* _stores of the current event context's event_ns
    evLog,        \* <<conference, migrator>> for every migrator run, in order
    exc,          \* the exception that ended this process's step, if any
    savedStores,  \* the global namespace's containers when the file was saved
    loadedStores, \* the global namespace's containers right after load()
    setups,       \* setup() calls received by each event migrator instance
    teardowns,    \* teardown() calls received by each event migrator instance
    upc,          \* position inside UserImporter.migrate and what follows it
    avatars,      \* zodb_root['avatars'], in iteration order
    groups,       \* zodb_root['groups'], in iteration order
    ignore_local_accounts,    \* the command line option of that name
    apos,         \* avatars the loop of migrate_users has consumed
    users,        \* the User objects made so far, by id
    avatar_merged_user,       \* global_ns.avatar_merged_user
    users_by_primary_email,   \* global_ns.users_by_primary_email
    users_by_secondary_email, \* global_ns.users_by_secondary_email
    all_groups,   \* global_ns.all_groups
    unresolved_merge_targets, \* UserImporter.unresolved_merge_targets
    seen_identities,          \* migrate_users' seen_identities
    rows,         \* primary keys present in each destination table
    sequences,    \* state of each destination table's key sequence
    call          \* the last call made after the users step, and its outcome

\* the variables of the pipeline
pvars == << pc, cfg, runs, idx, unit, phase, m_steps, ns_stores, ns_attrs,
            session, db, dbPrepared, triggers, restoreFile, invoked, failed,
            loaded, dbAtStart, evCreated, fileOrigin, resumedFrom,
            zodb, mig, event_ns, evLog, exc, savedStores, loadedStores,
            setups, teardowns >>

\* the variables of the users step and of the functions that use its output
uvars == << upc, avatars, groups, ignore_local_accounts, apos, users,
            avatar_merged_user, users_by_primary_email,
            users_by_secondary_email, all_groups, unresolved_merge_targets,
            seen_identities, rows, sequences, call >>

vars == << pvars, uvars >>

-----------------------------------------------------------------------------
(* Bounds of the model *)

\* processes started one after the other (a fresh run and its resumes)
MaxRuns == 2
\* legacy conferences in the source graph
NumEvents == 3
\* batch size of committing_iterator (the library's default is 100; the
\* events step uses the default), scaled to the number of events
CommitEvery == 2

-----------------------------------------------------------------------------
(* Values held by namespace containers *)

\* a live destination entity (a db.Model instance)
Obj(c, n) == [t |-> "obj", cls |-> c, id |-> n]
\* a plain value (number, string, tuple)
Plain(x) == [t |-> "val", v |-> x]
\* a set of destination entities (a value of the 'setdict' preset)
SetOf(S) == [t |-> "set", elems |-> S]
\* Python's None
NoneVal == [t |-> "none"]
\* the YAML node `!sqlalchemy [class name, id]`
Tagged(c, n) == [t |-> "!sqlalchemy", cls |-> c, id |-> n]
\* an object of the legacy graph (a Persistent instance), known by its oid
ZObj(o) == [t |-> "zobj", oid |-> o]
\* the YAML node `!zodb [oid]`
ZTagged(o) == [t |-> "!zodb", oid |-> o]

\* a row of the destination store
Row(c, n) == [cls |-> c, id |-> n]
RowOf(o) == [cls |-> o.cls, id |-> o.id]

\* d[k] = v on a dict kept as the set of its items
DictSet(d, k, v) == {e \in d : e[1] # k} \cup {<<k, v>>}
DictKeys(d) == {e[1] : e \in d}
\* d.update(items)
DictUpdate(d, items) == {e \in d : e[1] \notin DictKeys(items)} \cup items

Range(s) == {s[i] : i \in 1..Len(s)}

-----------------------------------------------------------------------------
(* The fixed step list and the namespace declaration *)

\* faulty variant, for sensitivity of the properties: categories listed before users
steps_misordered ==
    << "GlobalPreEventsImporter", "CategoryImporter", "RoomsLocationsImporter",
       "UserImporter", "EventImporter", "RoomBookingsImporter",
       "GlobalPostEventsImporter", "EventSeriesImporter",
       "GlobalBadgePosterImporter" >>

steps == << "GlobalPreEventsImporter", "UserImporter", "RoomsLocationsImporter",
            "CategoryImporter", "EventImporter", "RoomBookingsImporter",
            "GlobalPostEventsImporter", "EventSeriesImporter",
            "GlobalBadgePosterImporter" >>

RbSteps == {"RoomsLocationsImporter", "RoomBookingsImporter"}

StoreKeys == {"user_favorite_categories", "room_mapping", "venue_mapping",
              "legacy_event_ids", "legacy_category_ids", "wf_registry",
              "used_short_urls", "legacy_survey_mapping", "ip_domains",
              "avatar_merged_user", "all_groups", "users_by_primary_email",
              "users_by_secondary_email", "users_by_email", "reference_types"}

\* SharedNamespace.__init__: every declared key bound to an empty container
EmptyStores == [k \in StoreKeys |-> {}]

\* the name under which cli() registers the global namespace
GlobalNsName == "global_ns"

\* models whose rows make setup() refuse a fresh run
CheckedModels == {"Category", "User", "LocalGroup", "NewsItem", "IPNetworkGroup",
                  "LegacyCategoryMapping", "LegacyEventMapping", "Event",
                  "Contribution", "TimetableEntry", "Room", "Reservation",
                  "Session", "Abstract"}

\* faulty variant, for sensitivity of the properties: only the first model of the list is looked at
db_has_dataFirstOnly == \E r \in db : r.cls = "Category"

\* db_has_data(): some checked model has a row
db_has_data == \E r \in db : r.cls \in CheckedModels

-----------------------------------------------------------------------------
(* SharedNamespace *)

\* SharedNamespace.__getattr__ is consulted only when normal attribute lookup
\* fails: an instance attribute set by assignment is found first.
NsRead(k) == IF k \in DOMAIN ns_attrs THEN ns_attrs[k] ELSE ns_stores[k]

\* SharedNamespace.serialize
serialize == [k \in DOMAIN ns_stores |-> ns_stores[k]]

\* SharedNamespace.load: self._stores.update(data)
NsLoad(stores, data) ==
    [k \in (DOMAIN stores) \cup (DOMAIN data) |->
        IF k \in DOMAIN data THEN data[k] ELSE stores[k]]

\* sqlalchemy_representer and zodb_representer, applied by yaml.dump to
\* every entity and every legacy object in a key or a value
RepresentObj(o) ==
    IF o.t = "obj" THEN Tagged(o.cls, o.id)
    ELSE IF o.t = "zobj" THEN ZTagged(o.oid)
    ELSE o

EncodeValue(v) ==
    IF v.t = "set" THEN SetOf({RepresentObj(o) : o \in v.elems})
    ELSE RepresentObj(v)

\* faulty variant, for sensitivity of the properties: the constructor builds the entity from the node
\* without asking the destination store
ConstructObjTransient(n) ==
    IF n.t = "!zodb" THEN ZObj(n.oid)
    ELSE IF n.t # "!sqlalchemy" THEN n
    ELSE Obj(n.cls, n.id)

\* sqlalchemy_constructor: the entity is fetched from the destination store
\* (Model.get gives None for a key the store does not hold);
\* zodb_constructor: the object is fetched from the legacy graph by its oid
ConstructObj(n) ==
    IF n.t = "!zodb" THEN ZObj(n.oid)
    ELSE IF n.t # "!sqlalchemy" THEN n
    ELSE IF Row(n.cls, n.id) \in db THEN Obj(n.cls, n.id) ELSE NoneVal

DecodeValue(v) ==
    IF v.t = "set" THEN SetOf({ConstructObj(o) : o \in v.elems})
    ELSE ConstructObj(v)

EncodeStore(d) == {<<EncodeValue(e[1]), EncodeValue(e[2])>> : e \in d}
DecodeStore(d) == {<<DecodeValue(e[1]), DecodeValue(e[2])>> : e \in d}

-----------------------------------------------------------------------------
(* MigrationStateManager *)

\* faulty variant, for sensitivity of the properties: the step class itself is looked up in the list of names
has_already_run_by_class(step) == FALSE

has_already_run(step) == step \in Range(m_steps)

\* faulty variant, for sensitivity of the properties: the step registered last is left out of the dump
RestoreImageStale ==
    [steps |-> SubSeq(m_steps, 1, Len(m_steps) - 1),
     namespaces |-> [n \in {"global_ns"} |->
                        [k \in DOMAIN ns_stores |-> EncodeStore(ns_stores[k])]]]

\* what save_restore_point hands to yaml.dump, as it reads back from disk
RestoreImage ==
    [steps |-> m_steps,
     namespaces |-> [n \in {GlobalNsName} |->
                        [k \in DOMAIN serialize |-> EncodeStore(serialize[k])]]]

NoFile == [absent |-> TRUE]

-----------------------------------------------------------------------------
(* What each top-level step's migrate() does: work units in program order.  *)
(* A unit adds rows to the session and items to namespace containers;       *)
(* commit tells whether migrate() calls db.session.commit() after it.       *)

WorkUnit(rs, ws, c, a) == [rows |-> rs, writes |-> ws, commit |-> c, assign |-> a]

GlobalPreEventsWork ==
    << WorkUnit({Row("IPNetworkGroup", 1), Row("ReferenceType", 1)},
                {<<"ip_domains", Plain("dom"), Obj("IPNetworkGroup", 1)>>,
                 <<"reference_types", Plain("ref"), Obj("ReferenceType", 1)>>},
                TRUE, FALSE) >>

\* migrate_users (committed when its committing_iterator is exhausted),
\* migrate_groups (likewise), then the system user, the users_by_email
\* assignment and the final commit
UserWork ==
    << WorkUnit({Row("User", 1)},
                {<<"avatar_merged_user", Plain("a1"), Obj("User", 1)>>,
                 <<"users_by_primary_email", Plain("a1@x"), Obj("User", 1)>>,
                 <<"users_by_secondary_email", Plain("a1b@x"), Obj("User", 1)>>,
                 <<"user_favorite_categories", Plain("c1"), SetOf({Obj("User", 1)})>>},
                TRUE, FALSE),
       WorkUnit({Row("LocalGroup", 1)},
                {<<"all_groups", Plain("1"), Obj("LocalGroup", 1)>>},
                TRUE, FALSE),
       WorkUnit({Row("User", 0)}, {}, TRUE, TRUE) >>

RoomsLocationsWork ==
    << WorkUnit({Row("Location", 1), Row("Room", 1)},
                {<<"venue_mapping", Plain("loc"), Plain(1)>>,
                 <<"room_mapping", Plain("loc/room"), Plain(<<1, 1>>)>>},
                TRUE, FALSE) >>

CategoryWork ==
    << WorkUnit({Row("Category", 1)},
                {<<"legacy_category_ids", Plain("c1"), Obj("Category", 1)>>},
                TRUE, FALSE) >>

RoomBookingsWork ==
    << WorkUnit({Row("Reservation", 1)}, {}, TRUE, FALSE) >>

\* settings are set (flushed), migrate() itself never commits
GlobalPostEventsWork ==
    << WorkUnit({Row("Setting", 1)}, {}, FALSE, FALSE) >>

EventSeriesWork ==
    << WorkUnit({Row("Series", 1)}, {}, TRUE, FALSE) >>

GlobalBadgePosterWork ==
    << WorkUnit({Row("DesignerTemplate", 1)}, {}, TRUE, FALSE) >>

\* one legacy conference: create_event plus the event-scoped migrators
\* (EventMiscImporter records the event in legacy_event_ids; the survey
\* migrator records the conference's survey under the conference object,
\* where GlobalPostEventsImporter.migrate_survey_tasks looks it up)
EventWork(e) ==
    WorkUnit({Row("Event", e), Row("Survey", e)},
             {<<"legacy_event_ids", Plain(e), Obj("Event", e)>>,
              <<"legacy_survey_mapping", ZObj(e), Obj("Survey", e)>>},
             (e % CommitEvery = 0) \/ (e = NumEvents), FALSE)

Work(step) ==
    CASE step = "GlobalPreEventsImporter" -> GlobalPreEventsWork
      [] step = "UserImporter" -> UserWork
      [] step = "RoomsLocationsImporter" -> RoomsLocationsWork
      [] step = "CategoryImporter" -> CategoryWork
      [] step = "EventImporter" -> [e \in 1..NumEvents |-> EventWork(e)]
      [] step = "RoomBookingsImporter" -> RoomBookingsWork
      [] step = "GlobalPostEventsImporter" -> GlobalPostEventsWork
      [] step = "EventSeriesImporter" -> EventSeriesWork
      [] step = "GlobalBadgePosterImporter" -> GlobalBadgePosterWork

\* global_ns.<key>[k] = v for every write of a unit
ApplyWrites(stores, ws) ==
    [k \in DOMAIN stores |->
        DictUpdate(stores[k], {<<w[2], w[3]>> : w \in {x \in ws : x[1] = k}})]

\* self.global_ns.users_by_email = dict(self.global_ns.users_by_primary_email)
\* self.global_ns.users_by_email.update(self.global_ns.users_by_secondary_email)
AssignUsersByEmail(attrs, stores) ==
    [k \in (DOMAIN attrs) \cup {"users_by_email"} |->
        IF k = "users_by_email"
        THEN DictUpdate(stores["users_by_primary_email"],
                        stores["users_by_secondary_email"])
        ELSE attrs[k]]

\* the destination store refuses a second row with the same primary key
CanCommit == session \cap db = {}

-----------------------------------------------------------------------------
(* The legacy graph *)

\* the graphs the model migrates: every conference has a category, one has
\* none, or one never had a call for abstracts
Graphs == {"clean", "orphan", "nocfa"}
\* the conference that is special in the "orphan" and "nocfa" graphs: the
\* last but one, so that conferences come before and after it
OddEvent == NumEvents - 1

\* conf._Conference__owners is empty or names a category that is not in
\* global_ns.legacy_category_ids
Orphan(e) == zodb = "orphan" /\ e = OddEvent

\* the abstract manager was never activated, has no abstracts, no
\* notification templates, no submission period, and the conference has no
\* tracks; every conference of the model has a contribution with a type
NoCallForAbstracts(e) == zodb = "nocfa" /\ e = OddEvent

-----------------------------------------------------------------------------
(* The events step: event-scoped migrators and the event-local namespace *)

\* _get_all_steps()
AllEventSteps ==
    << "EventMiscImporter", "EventTypeImporter", "EventACLImporter",
       "EventLogImporter", "EventSettingsImporter",
       "EventPaymentSettingsImporter", "EventAlarmImporter",
       "EventImageImporter", "EventLayoutImporter", "EventShortUrlsImporter",
       "EventMenuImporter", "EventSurveyImporter", "EventRegFormImporter",
       "EventTracksImporter", "EventParticipantsImporter",
       "EventAbstractImporter", "EventTimetableImporter",
       "EventAttachmentsImporter", "EventNotesImporter",
       "EventPaperReviewingImporter", "EventBadgesPostersImporter",
       "EventLegacyIdImporter" >>

\* the containers _EventContextBase.__init__ declares
EventStoreKeys ==
    {"event_persons_by_email", "event_persons_by_user", "event_persons_by_data",
     "legacy_contribution_type_map", "abstract_map", "old_abstract_state_map",
     "as_duplicate_reviews", "track_map", "track_map_by_id",
     "legacy_contribution_field_map", "legacy_field_option_id_map",
     "legacy_contribution_abstracts", "legacy_session_map",
     "legacy_contribution_map", "legacy_subcontribution_map",
     "payment_messages", "misc_data"}

\* a new SharedNamespace('event_ns', ...): every container empty
EmptyEventStores == [k \in EventStoreKeys |-> {}]

\* no event context exists
NoEventNs == [k \in {} |-> {}]

\* the event-local entries each migrator writes, as <<container, entry>>
PaymentSettingsWrites ==
    {<<"misc_data", "payment_currency">>, <<"payment_messages", "register">>,
     <<"payment_messages", "success">>}
MenuWrites == {<<"misc_data", "participant_list_disabled">>}
RegFormWrites == {<<"misc_data", "last_registrant_friendly_id">>}
TracksWrites == {<<"track_map", "track">>, <<"track_map_by_id", "track">>}
\* EventAbstractImporter.migrate returns before writing anything when the
\* conference never had a call for abstracts
AbstractWrites(e) ==
    IF NoCallForAbstracts(e) THEN {}
    ELSE {<<"legacy_contribution_type_map", "type">>,
          <<"legacy_contribution_field_map", "field">>,
          <<"legacy_field_option_id_map", "option">>,
          <<"abstract_map", "abstract">>,
          <<"old_abstract_state_map", "abstract">>,
          <<"legacy_contribution_abstracts", "contribution">>}
TimetableWrites ==
    {<<"legacy_session_map", "session">>,
     <<"legacy_contribution_map", "contribution">>,
     <<"legacy_subcontribution_map", "subcontribution">>}

EventNsWrites(m, e) ==
    CASE m = "EventPaymentSettingsImporter" -> PaymentSettingsWrites
      [] m = "EventMenuImporter" -> MenuWrites
      [] m = "EventRegFormImporter" -> RegFormWrites
      [] m = "EventTracksImporter" -> TracksWrites
      [] m = "EventAbstractImporter" -> AbstractWrites(e)
      [] m = "EventTimetableImporter" -> TimetableWrites
      [] OTHER -> {}

\* the event-local entries each migrator reads by subscript, so that a
\* missing entry raises KeyError
RegFormReads ==
    {<<"misc_data", "payment_currency">>,
     <<"misc_data", "participant_list_disabled">>,
     <<"payment_messages", "register">>, <<"payment_messages", "success">>}
TimetableReads == {<<"legacy_contribution_type_map", "type">>}
NotesReads == {<<"legacy_subcontribution_map", "subcontribution">>}
AttachmentsReads == {<<"legacy_subcontribution_map", "subcontribution">>}

EventNsReads(m) ==
    CASE m = "EventRegFormImporter" -> RegFormReads
      [] m = "EventTimetableImporter" -> TimetableReads
      [] m = "EventNotesImporter" -> NotesReads
      [] m = "EventAttachmentsImporter" -> AttachmentsReads
      [] OTHER -> {}

\* the containers each migrator reads in a way that tolerates a missing
\* entry (.get, `in`, iteration, or KeyError caught)
EventNsSoftReads(m) ==
    CASE m = "EventParticipantsImporter" -> {"misc_data"}
      [] m = "EventAbstractImporter" -> {"track_map", "track_map_by_id"}
      [] m = "EventTimetableImporter" ->
            {"track_map", "legacy_contribution_abstracts",
             "legacy_contribution_field_map", "legacy_field_option_id_map"}
      [] m = "EventAttachmentsImporter" ->
            {"legacy_session_map", "legacy_contribution_map"}
      [] m = "EventNotesImporter" ->
            {"legacy_session_map", "legacy_contribution_map"}
      [] m = "EventPaperReviewingImporter" -> {"legacy_contribution_map"}
      [] OTHER -> {}

\* the global container each migrator writes for its conference
EventGlobalStore(m) ==
    CASE m = "EventMiscImporter" -> {"legacy_event_ids"}
      [] m = "EventSurveyImporter" -> {"legacy_survey_mapping"}
      [] OTHER -> {}

-----------------------------------------------------------------------------
(* The users step in detail: UserImporter.migrate over a legacy avatar     *)
(* holder, and the functions of Importer that later steps apply to what it *)
(* leaves in the global namespace                                          *)

\* avatars in the legacy holder
NumAvatars == 3

\* dict.get(k), d[k] = v and del d[k] on a dict held as a function
get(d, k) == IF k \in DOMAIN d THEN Obj("User", d[k]) ELSE NoneVal
setitem(d, k, v) == [x \in DOMAIN d \cup {k} |-> IF x = k THEN v ELSE d[x]]
delitem(d, k) == [x \in DOMAIN d \ {k} |-> d[x]]
EmptyDict == [k \in {} |-> {}]

\* the strings the legacy data holds as addresses, logins and group names
RawEmails == {"a@x.org", " A@X.org", "b@x.org", "nomail"}

\* unicode.lower() and unicode.strip() on those strings
lower(s) ==
    CASE s = " A@X.org" -> " a@x.org"
      [] s = "A@X.org" -> "a@x.org"
      [] s = "JDoe " -> "jdoe "
      [] s = "JDoe" -> "jdoe"
      [] s = "Staff " -> "staff "
      [] s = "Staff" -> "staff"
      [] OTHER -> s
strip(s) ==
    CASE s = " A@X.org" -> "A@X.org"
      [] s = " a@x.org" -> "a@x.org"
      [] s = "JDoe " -> "JDoe"
      [] s = "jdoe " -> "jdoe"
      [] s = "Staff " -> "Staff"
      [] s = "staff " -> "staff"
      [] OTHER -> s

\* convert_to_unicode(val): decodes, drops control characters, strips
convert_to_unicode(val) == strip(val)
\* indico.util.string.sanitize_email / is_valid_mail on a single address
sanitize_email(s) == strip(s)
is_valid_mail(s) == strip(s) \notin {"nomail", ""}

\* legacy identities
LocalId == [cls |-> "LocalIdentity", login |-> "JDoe ", password |-> "secret"]
LdapId == [cls |-> "LDAPIdentity", login |-> "jdoe", password |-> ""]
NiceId == [cls |-> "NiceIdentity", login |-> "jdoe", password |-> ""]

\* what an avatar of the holder looks like, apart from its id and merges
AvatarKind(e, s, i, st, n) ==
    [email |-> e, secondaryEmails |-> s, identities |-> i, status |-> st,
     named |-> n]
AvatarKinds ==
    { AvatarKind("a@x.org", {}, <<LocalId>>, "activated", TRUE),
      AvatarKind(" A@X.org", {"b@x.org"}, <<>>, "activated", TRUE),
      AvatarKind("b@x.org", {"a@x.org"}, <<LdapId>>, "activated", TRUE),
      AvatarKind("nomail", {" A@X.org", "b@x.org"}, <<NiceId>>, "disabled", TRUE),
      AvatarKind("a@x.org", {}, <<LdapId>>, "Not confirmed", TRUE),
      AvatarKind("b@x.org", {}, <<>>, "activated", FALSE) }

\* avatar i of kind k, merged into avatar `to` (0: not merged) and listing
\* the avatars `from` as merged into it
Avatar(i, k, to, from) ==
    [id |-> i, email |-> k.email, secondaryEmails |-> k.secondaryEmails,
     identities |-> k.identities, status |-> k.status, named |-> k.named,
     mergeTo |-> to, mergeFrom |-> from]

\* holders without merges, over every kind of avatar
CollisionHolders ==
    {[i \in 1..NumAvatars |-> Avatar(i, ks[i], 0, {})] :
        ks \in [1..NumAvatars -> AvatarKinds]}

\* holders of plain avatars, over every way they can be merged into each
\* other; an avatar lists any of the avatars merged into it, or none
MergeTargets ==
    {to \in [1..NumAvatars -> 0..NumAvatars] :
        /\ \A i \in 1..NumAvatars : to[i] # i
        /\ \E i \in 1..NumAvatars : to[i] # 0}
MergeHolders ==
    UNION {{[i \in 1..NumAvatars |-> Avatar(i, AvatarKind("a@x.org", {}, <<>>, "activated", TRUE),
                                                 to[i], fr[i])] :
              fr \in {f \in [1..NumAvatars -> SUBSET (1..NumAvatars)] :
                        \A i \in 1..NumAvatars :
                            f[i] \subseteq {j \in 1..NumAvatars : to[j] = i}}} :
           to \in MergeTargets}

\* zodb_root['groups']: local groups with a name clash, a directory group,
\* members that are avatars of the holder, a deleted avatar, a group
NoHolder == [absent |-> TRUE]
LegacyGroup(c, i, n, ms) == [cls |-> c, id |-> i, name |-> n, members |-> ms]
GroupHolder ==
    << LegacyGroup("Group", 1, "staff",
                   <<[cls |-> "Avatar", id |-> 1],
                     [cls |-> "Avatar", id |-> NumAvatars + 1]>>),
       LegacyGroup("LDAPGroup", 2, "it-dep", <<>>),
       LegacyGroup("Group", 3, "Staff ",
                   <<[cls |-> "Group", id |-> 1],
                     [cls |-> "Avatar", id |-> NumAvatars]>>) >>

\* the destination's mapped classes: schema, table and primary key columns
Column(n, ty, a) == [name |-> n, type |-> ty, autoincrement |-> a]
Model(s, t, pk) == [schema |-> s, tablename |-> t, pk |-> pk]
Models ==
    { Model("users", "users", <<Column("id", "Integer", TRUE)>>),
      Model("users", "groups", <<Column("id", "Integer", TRUE)>>),
      Model("users", "favorite_users",
            <<Column("user_id", "Integer", TRUE),
              Column("target_id", "Integer", TRUE)>>),
      Model("users", "identities", <<Column("id", "Integer", TRUE)>>),
      Model("events", "events", <<Column("id", "Integer", TRUE)>>),
      Model("categories", "legacy_id_map",
            <<Column("legacy_category_id", "String", TRUE)>>) }
TableOf(m) == <<m.schema, m.tablename>>
\* a sequence nobody has used, setval(seq, v) and what nextval(seq) would be
FreshSequence == [last_value |-> 1, is_called |-> FALSE]
setval(v) == [last_value |-> v, is_called |-> TRUE]
nextval(seq) == IF seq.is_called THEN seq.last_value + 1 ELSE seq.last_value

NoCall == [op |-> "none"]

\* the state before and outside the users step
UsersIdle ==
    /\ upc = "off"
    /\ avatars = <<>>
    /\ groups = NoHolder
    /\ ignore_local_accounts = FALSE
    /\ apos = 0
    /\ users = EmptyDict
    /\ avatar_merged_user = EmptyDict
    /\ users_by_primary_email = EmptyDict
    /\ users_by_secondary_email = EmptyDict
    /\ all_groups = EmptyDict
    /\ unresolved_merge_targets = EmptyDict
    /\ seen_identities = {}
    /\ rows = EmptyDict
    /\ sequences = EmptyDict
    /\ call = NoCall

-----------------------------------------------------------------------------
(* The state of a process that has not started, and Init *)

NoAttrs == [k \in {} |-> {}]
NoData == [absent |-> TRUE]
NoOrigin == [failed |-> "none", rb |-> FALSE]
NoStores == [k \in {} |-> {}]
NoExc == [type |-> "none"]
\* the tables EventImporter.migrate switches the trigger of
TriggerTables == <<"timetable_entries", "session_blocks", "contributions", "breaks">>
PcStopped == {"off", "done", "raised", "fatal"}
\* the event migrators are instantiated by migrate_event_data: before that
\* no instance has received a call
NoCalls == [m \in Range(AllEventSteps) |-> 0]

PipelineIdle ==
    /\ pc = "off"
    /\ cfg = [rb |-> FALSE, save |-> FALSE, restore |-> FALSE, broken |-> FALSE]
    /\ runs = 0
    /\ idx = 1
    /\ unit = 0
    /\ phase = "none"
    /\ m_steps = <<>>
    /\ ns_stores = EmptyStores
    /\ ns_attrs = NoAttrs
    /\ session = {}
    /\ db = {}
    /\ dbPrepared = FALSE
    /\ triggers = Range(TriggerTables)
    /\ restoreFile = NoFile
    /\ invoked = <<>>
    /\ failed = "none"
    /\ loaded = NoData
    /\ dbAtStart = {}
    /\ evCreated = {}
    /\ fileOrigin = NoOrigin
    /\ resumedFrom = NoOrigin
    /\ zodb \in Graphs
    /\ mig = 0
    /\ event_ns = NoEventNs
    /\ evLog = <<>>
    /\ exc = NoExc
    /\ savedStores = NoStores
    /\ loadedStores = NoStores
    /\ setups = NoCalls
    /\ teardowns = NoCalls

\* the pipeline before its first process, with any of the legacy graphs
Init == PipelineIdle /\ UsersIdle

-----------------------------------------------------------------------------
(* cli() and setup(): a new process *)

CurStep == steps[idx]

\* migrate_broken_events is read only for a conference without a mapped
\* category: a graph that has none is migrated with the flag unset
BrokenChoices == IF zodb = "orphan" THEN BOOLEAN ELSE {FALSE}

\* cli() builds and registers a fresh global namespace; setup() refuses a
\* fresh run on a destination that has data and prepares an empty one.  A
\* run without --restore-file goes straight to the step loop.
StartProcess ==
    /\ pc \in PcStopped
    /\ runs < MaxRuns
    /\ \E rb \in BOOLEAN, save \in BOOLEAN, restore \in BOOLEAN, broken \in BrokenChoices :
        /\ restore => restoreFile # NoFile
        /\ cfg' = [rb |-> rb, save |-> save, restore |-> restore, broken |-> broken]
        /\ pc' = IF restore THEN "start"
                 ELSE IF dbPrepared /\ db_has_data THEN "fatal" ELSE "loop"
        /\ dbPrepared' = (dbPrepared \/ ~restore)
    /\ runs' = runs + 1
    /\ idx' = 1
    /\ unit' = 0
    /\ phase' = "none"
    /\ m_steps' = <<>>
    /\ ns_stores' = EmptyStores
    /\ ns_attrs' = NoAttrs
    /\ session' = {}
    /\ invoked' = <<>>
    /\ failed' = "none"
    /\ loaded' = NoData
    /\ dbAtStart' = db
    /\ evCreated' = {}
    /\ resumedFrom' = NoOrigin
    /\ UNCHANGED << db, triggers, restoreFile, fileOrigin >>
    /\ mig' = 0
    /\ event_ns' = NoEventNs
    /\ evLog' = <<>>
    /\ exc' = NoExc
    /\ loadedStores' = NoStores
    /\ setups' = NoCalls
    /\ teardowns' = NoCalls
    /\ UNCHANGED << zodb, savedStores >>
    /\ UNCHANGED uvars

-----------------------------------------------------------------------------
(* The restore file *)

FileIntact(f) ==
    /\ f # NoFile
    /\ DOMAIN f = {"steps", "namespaces"}
    /\ DOMAIN f.namespaces = {GlobalNsName}
    /\ DOMAIN f.namespaces[GlobalNsName] = StoreKeys

\* container keys a damaged file may lack
DroppableKeys == {"avatar_merged_user"}

\* A restore file that was written partially, or by another version: it
\* lacks the step list, the namespace's entry, or a container of the entry.
\* The file is damaged, if at all, before the last process reads it.
DamageRestoreFile ==
    /\ pc \in PcStopped
    /\ runs = MaxRuns - 1
    /\ FileIntact(restoreFile)
    /\ \/ restoreFile' = [x \in {"namespaces"} |-> restoreFile.namespaces]
       \/ restoreFile' = [steps |-> restoreFile.steps,
                          namespaces |-> [n \in {} |-> {}]]
       \/ \E k \in DroppableKeys :
            restoreFile' =
                [steps |-> restoreFile.steps,
                 namespaces |-> [n \in {GlobalNsName} |->
                    [j \in StoreKeys \ {k} |-> restoreFile.namespaces[n][j]]]]
    /\ UNCHANGED << pc, cfg, runs, idx, unit, phase, m_steps, ns_stores, ns_attrs,
                    session, db, dbPrepared, triggers, invoked, failed, loaded,
                    dbAtStart, evCreated,
                    fileOrigin, resumedFrom >>
    /\ UNCHANGED << zodb, mig, event_ns, evLog, exc, savedStores, loadedStores >>
    /\ UNCHANGED << setups, teardowns >>
    /\ UNCHANGED uvars

\* yaml.load with the !sqlalchemy constructor, on one namespace entry
DecodeEntry(entry) == [k \in DOMAIN entry |-> DecodeStore(entry[k])]

\* the data has an entry for the registered namespace
HasNsEntry(data) ==
    /\ "namespaces" \in DOMAIN data
    /\ GlobalNsName \in DOMAIN data.namespaces

\* faulty variant, for sensitivity of the properties: a namespace without an entry in the data is passed over
\* (data['namespaces'].get(name, {}))
LoadRestorePointLenient ==
    /\ pc = "start"
    /\ cfg.restore
    /\ loaded' = restoreFile
    /\ resumedFrom' = fileOrigin
    /\ IF "steps" \notin DOMAIN restoreFile
       THEN /\ failed' = "load"
            /\ pc' = "except"
            /\ UNCHANGED << m_steps, ns_stores >>
       ELSE /\ m_steps' = restoreFile.steps
            /\ ns_stores' = IF HasNsEntry(restoreFile)
                            THEN NsLoad(ns_stores,
                                    DecodeEntry(restoreFile.namespaces[GlobalNsName]))
                            ELSE ns_stores
            /\ pc' = "loop"
            /\ UNCHANGED failed
    /\ UNCHANGED << cfg, runs, idx, unit, phase, ns_attrs, session, db, dbPrepared,
                    triggers, restoreFile, invoked, dbAtStart, evCreated, fileOrigin >>
    /\ loadedStores' = IF pc' = "loop" THEN ns_stores' ELSE loadedStores
    /\ UNCHANGED << zodb, mig, event_ns, evLog, exc, savedStores >>
    /\ UNCHANGED << setups, teardowns >>
    /\ UNCHANGED uvars

\* MigrationStateManager.load_restore_point, called from migrate(): a missing
\* key raises KeyError inside the driver's try block
LoadRestorePoint ==
    /\ pc = "start"
    /\ cfg.restore
    /\ loaded' = restoreFile
    /\ resumedFrom' = fileOrigin
    /\ IF "steps" \notin DOMAIN restoreFile
       THEN /\ failed' = "load"
            /\ pc' = "except"
            /\ UNCHANGED << m_steps, ns_stores >>
       ELSE /\ m_steps' = restoreFile.steps
            /\ IF HasNsEntry(restoreFile)
               THEN /\ ns_stores' = NsLoad(ns_stores,
                            DecodeEntry(restoreFile.namespaces[GlobalNsName]))
                    /\ pc' = "loop"
                    /\ UNCHANGED failed
               ELSE /\ failed' = "load"
                    /\ pc' = "except"
                    /\ UNCHANGED ns_stores
    /\ UNCHANGED << cfg, runs, idx, unit, phase, ns_attrs, session, db, dbPrepared,
                    triggers, restoreFile, invoked, dbAtStart, evCreated, fileOrigin >>
    /\ loadedStores' = IF pc' = "loop" THEN ns_stores' ELSE loadedStores
    /\ UNCHANGED << zodb, mig, event_ns, evLog, exc, savedStores >>
    /\ UNCHANGED << setups, teardowns >>
    /\ UNCHANGED uvars

-----------------------------------------------------------------------------
(* The driver loop of migrate() *)

\* faulty variant, for sensitivity of the properties: the list is replaced
\* by the step just finished
register_step_replacing(step) == << step >>

\* MigrationStateManager.register_step
register_step(step) == Append(m_steps, step)

\* the step needs the room-booking source and none was given
RunsWithoutRb(step) == step \in RbSteps /\ ~cfg.rb

LoopSkip ==
    /\ pc = "loop"
    /\ idx <= Len(steps)
    /\ has_already_run(CurStep)
    /\ idx' = idx + 1
    /\ UNCHANGED << pc, cfg, runs, unit, phase, m_steps, ns_stores, ns_attrs,
                    session, db, dbPrepared, triggers, restoreFile, invoked,
                    failed, loaded, dbAtStart, evCreated,
                    fileOrigin, resumedFrom >>
    /\ UNCHANGED << zodb, mig, event_ns, evLog, exc, savedStores, loadedStores >>
    /\ UNCHANGED << setups, teardowns >>
    /\ UNCHANGED uvars

\* a room-booking step without --rb-zodb-uri: not run, yet registered
LoopRegisterOnly ==
    /\ pc = "loop"
    /\ idx <= Len(steps)
    /\ ~has_already_run(CurStep)
    /\ RunsWithoutRb(CurStep)
    /\ m_steps' = register_step(CurStep)
    /\ idx' = idx + 1
    /\ UNCHANGED << pc, cfg, runs, unit, phase, ns_stores, ns_attrs,
                    session, db, dbPrepared, triggers, restoreFile, invoked,
                    failed, loaded, dbAtStart, evCreated,
                    fileOrigin, resumedFrom >>
    /\ UNCHANGED << zodb, mig, event_ns, evLog, exc, savedStores, loadedStores >>
    /\ UNCHANGED << setups, teardowns >>
    /\ UNCHANGED uvars

\* step(...).run() is entered
StepInvoke ==
    /\ pc = "loop"
    /\ idx <= Len(steps)
    /\ ~has_already_run(CurStep)
    /\ ~RunsWithoutRb(CurStep)
    /\ pc' = "running"
    /\ invoked' = Append(invoked, CurStep)
    /\ unit' = 0
    /\ phase' = IF CurStep = "EventImporter" THEN "begin" ELSE "work"
    /\ UNCHANGED << cfg, runs, idx, m_steps, ns_stores, ns_attrs, session, db,
                    dbPrepared, triggers, restoreFile, failed, loaded,
                    dbAtStart, evCreated,
                    fileOrigin, resumedFrom >>
    /\ UNCHANGED << zodb, mig, event_ns, evLog, exc, savedStores, loadedStores >>
    /\ UNCHANGED << setups, teardowns >>
    /\ UNCHANGED uvars

\* the loop is exhausted: logger.set_success()
LoopEnd ==
    /\ pc = "loop"
    /\ idx > Len(steps)
    /\ pc' = "done"
    /\ UNCHANGED << cfg, runs, idx, unit, phase, m_steps, ns_stores, ns_attrs,
                    session, db, dbPrepared, triggers, restoreFile, invoked,
                    failed, loaded, dbAtStart, evCreated,
                    fileOrigin, resumedFrom >>
    /\ UNCHANGED << zodb, mig, event_ns, evLog, exc, savedStores, loadedStores >>
    /\ UNCHANGED << setups, teardowns >>
    /\ UNCHANGED uvars

-----------------------------------------------------------------------------
(* Inside a step's run() *)

\* the state after the next work unit's rows and namespace items are written
WorkSession(u) == session \cup u.rows
WorkStores(u) == ApplyWrites(ns_stores, u.writes)
WorkAttrs(u) == IF u.assign THEN AssignUsersByEmail(ns_attrs, WorkStores(u))
                ELSE ns_attrs
WorkCreated(n) == IF CurStep = "EventImporter" THEN evCreated \cup {n}
                  ELSE evCreated

\* EventImporter.migrate: the commit that precedes the DISABLE TRIGGER loop
EventBegin ==
    /\ pc = "running"
    /\ CurStep = "EventImporter"
    /\ phase = "begin"
    /\ CanCommit
    /\ db' = db \cup session
    /\ session' = {}
    /\ phase' = "disable"
    /\ UNCHANGED << pc, cfg, runs, idx, unit, m_steps, ns_stores, ns_attrs,
                    dbPrepared, triggers, restoreFile, invoked, failed, loaded,
                    dbAtStart, evCreated,
                    fileOrigin, resumedFrom >>
    /\ UNCHANGED << zodb, mig, event_ns, evLog, exc, savedStores, loadedStores >>
    /\ UNCHANGED << setups, teardowns >>
    /\ UNCHANGED uvars

\* the next unit of a step's migrate() (the events step has its own loop)
StepWork ==
    /\ pc = "running"
    /\ CurStep # "EventImporter"
    /\ phase = "work"
    /\ unit < Len(Work(CurStep))
    /\ LET u == Work(CurStep)[unit + 1] IN
        /\ session' = WorkSession(u)
        /\ ns_stores' = WorkStores(u)
        /\ ns_attrs' = WorkAttrs(u)
        /\ phase' = IF u.commit THEN "commit" ELSE "work"
    /\ unit' = unit + 1
    /\ UNCHANGED << pc, cfg, runs, idx, m_steps, db, dbPrepared, triggers, evCreated,
                    restoreFile, invoked, failed, loaded, dbAtStart,
                    fileOrigin, resumedFrom >>
    /\ UNCHANGED << zodb, mig, event_ns, evLog, exc, savedStores, loadedStores >>
    /\ UNCHANGED << setups, teardowns >>
    /\ UNCHANGED uvars

\* db.session.commit()
StepCommit ==
    /\ pc = "running"
    /\ phase = "commit"
    /\ CanCommit
    /\ db' = db \cup session
    /\ session' = {}
    /\ phase' = "work"
    /\ UNCHANGED << pc, cfg, runs, idx, unit, m_steps, ns_stores, ns_attrs,
                    dbPrepared, triggers, restoreFile, invoked, failed, loaded,
                    dbAtStart, evCreated,
                    fileOrigin, resumedFrom >>
    /\ UNCHANGED << zodb, mig, event_ns, evLog, exc, savedStores, loadedStores >>
    /\ UNCHANGED << setups, teardowns >>
    /\ UNCHANGED uvars

\* one `ALTER TABLE events.<table> DISABLE TRIGGER consistent_timetable`
\* of the loop that precedes the try block
DisableTrigger ==
    /\ pc = "running"
    /\ phase = "disable"
    /\ mig < Len(TriggerTables)
    /\ triggers' = triggers \ {TriggerTables[mig + 1]}
    /\ mig' = IF mig + 1 = Len(TriggerTables) THEN 0 ELSE mig + 1
    /\ phase' = IF mig + 1 = Len(TriggerTables) THEN "setup" ELSE "disable"
    /\ UNCHANGED << pc, cfg, runs, idx, unit, m_steps, ns_stores, ns_attrs,
                    session, db, dbPrepared, restoreFile, invoked, failed,
                    loaded, dbAtStart, evCreated, fileOrigin, resumedFrom,
                    zodb, event_ns, evLog, exc, savedStores, loadedStores >>
    /\ UNCHANGED << setups, teardowns >>
    /\ UNCHANGED uvars

\* faulty variant, for sensitivity of the properties: setup() is left out
\* for the last migrator of the list
EventSetupShort ==
    /\ pc = "running"
    /\ phase = "setup"
    /\ setups' = [m \in Range(AllEventSteps) |->
                     IF m = AllEventSteps[Len(AllEventSteps)] THEN 0 ELSE 1]
    /\ teardowns' = NoCalls
    /\ phase' = "work"
    /\ UNCHANGED << pc, cfg, runs, idx, unit, m_steps, ns_stores, ns_attrs,
                    session, db, dbPrepared, triggers, restoreFile, invoked,
                    failed, loaded, dbAtStart, evCreated, fileOrigin,
                    resumedFrom, zodb, mig, event_ns, evLog, exc, savedStores,
                    loadedStores >>
    /\ UNCHANGED uvars

\* the head of migrate_event_data: one instance of every event migrator is
\* made, and setup() is called on each of them in turn
EventSetup ==
    /\ pc = "running"
    /\ phase = "setup"
    /\ setups' = [m \in Range(AllEventSteps) |-> NoCalls[m] + 1]
    /\ teardowns' = NoCalls
    /\ phase' = "work"
    /\ UNCHANGED << pc, cfg, runs, idx, unit, m_steps, ns_stores, ns_attrs,
                    session, db, dbPrepared, triggers, restoreFile, invoked,
                    failed, loaded, dbAtStart, evCreated, fileOrigin,
                    resumedFrom, zodb, mig, event_ns, evLog, exc, savedStores,
                    loadedStores >>
    /\ UNCHANGED uvars

\* the conference the loop of migrate_event_data is at
CurEvent == unit + 1

\* faulty variant, for sensitivity of the properties: a commit after every
\* conference
NextEventPhasePerEvent(e) == "commit"

\* the loop goes on to the next conference: committing_iterator commits
\* after every CommitEvery-th item and after the last one
NextEventPhase(e) == IF EventWork(e).commit THEN "commit" ELSE "work"

\* the except/finally clauses of EventImporter.migrate: rollback and
\* ENABLE TRIGGER on the four tables, then the exception reaches the driver
EventTryExit(x) ==
    /\ session' = {}
    /\ triggers' = Range(TriggerTables)
    /\ failed' = CurStep
    /\ exc' = x
    /\ pc' = "except"

\* faulty variant, for sensitivity of the properties: one event context,
\* made for the first conference, serves every conference
EventCreateReusingContext ==
    /\ pc = "running"
    /\ CurStep = "EventImporter"
    /\ phase = "work"
    /\ unit < NumEvents
    /\ ~Orphan(CurEvent)
    /\ event_ns' = IF event_ns = NoEventNs THEN EmptyEventStores ELSE event_ns
    /\ session' = WorkSession(EventWork(CurEvent))
    /\ evCreated' = WorkCreated(CurEvent)
    /\ mig' = 0
    /\ phase' = "event"
    /\ UNCHANGED << pc, cfg, runs, idx, unit, m_steps, ns_stores, ns_attrs, db,
                    dbPrepared, triggers, restoreFile, invoked, failed, loaded,
                    dbAtStart, fileOrigin, resumedFrom,
                    zodb, evLog, exc, savedStores, loadedStores >>
    /\ UNCHANGED << setups, teardowns >>
    /\ UNCHANGED uvars

\* EventContext(conf, debug) and context.create_event() for a conference
\* whose category is mapped
EventCreate ==
    /\ pc = "running"
    /\ CurStep = "EventImporter"
    /\ phase = "work"
    /\ unit < NumEvents
    /\ ~Orphan(CurEvent)
    /\ event_ns' = EmptyEventStores
    /\ session' = WorkSession(EventWork(CurEvent))
    /\ evCreated' = WorkCreated(CurEvent)
    /\ mig' = 0
    /\ phase' = "event"
    /\ UNCHANGED << pc, cfg, runs, idx, unit, m_steps, ns_stores, ns_attrs, db,
                    dbPrepared, triggers, restoreFile, invoked, failed, loaded,
                    dbAtStart, fileOrigin, resumedFrom,
                    zodb, evLog, exc, savedStores, loadedStores >>
    /\ UNCHANGED << setups, teardowns >>
    /\ UNCHANGED uvars

\* faulty variant, for sensitivity of the properties: SkipEvent ends the
\* loop over the conferences
EventSkipBreaks ==
    /\ pc = "running"
    /\ CurStep = "EventImporter"
    /\ phase = "work"
    /\ unit < NumEvents
    /\ Orphan(CurEvent)
    /\ ~cfg.broken
    /\ event_ns' = EmptyEventStores
    /\ unit' = NumEvents
    /\ phase' = NextEventPhase(NumEvents)
    /\ UNCHANGED << pc, cfg, runs, idx, m_steps, ns_stores, ns_attrs, session,
                    db, dbPrepared, triggers, restoreFile, invoked, failed,
                    loaded, dbAtStart, evCreated, fileOrigin, resumedFrom,
                    zodb, mig, evLog, exc, savedStores, loadedStores >>
    /\ UNCHANGED << setups, teardowns >>
    /\ UNCHANGED uvars

\* create_event raises SkipEvent for a conference without a mapped category
\* when migrate_broken_events is not set; the loop continues
EventSkip ==
    /\ pc = "running"
    /\ CurStep = "EventImporter"
    /\ phase = "work"
    /\ unit < NumEvents
    /\ Orphan(CurEvent)
    /\ ~cfg.broken
    /\ event_ns' = EmptyEventStores
    /\ unit' = unit + 1
    /\ phase' = NextEventPhase(CurEvent)
    /\ UNCHANGED << pc, cfg, runs, idx, m_steps, ns_stores, ns_attrs, session,
                    db, dbPrepared, triggers, restoreFile, invoked, failed,
                    loaded, dbAtStart, evCreated, fileOrigin, resumedFrom,
                    zodb, mig, evLog, exc, savedStores, loadedStores >>
    /\ UNCHANGED << setups, teardowns >>
    /\ UNCHANGED uvars

\* with migrate_broken_events set, create_event reads the lostandfound_category
\* property, which reads global_ns.lostandfound_category: the key is not
\* declared, __getattr__ raises KeyError inside the except clause
EventCreateKeyError ==
    /\ pc = "running"
    /\ CurStep = "EventImporter"
    /\ phase = "work"
    /\ unit < NumEvents
    /\ Orphan(CurEvent)
    /\ cfg.broken
    /\ "lostandfound_category" \notin DOMAIN ns_attrs
    /\ "lostandfound_category" \notin DOMAIN ns_stores
    /\ event_ns' = EmptyEventStores
    /\ EventTryExit([type |-> "KeyError", ns |-> "global_ns",
                     key |-> "lostandfound_category"])
    /\ UNCHANGED << cfg, runs, idx, unit, phase, m_steps, ns_stores, ns_attrs,
                    db, dbPrepared, restoreFile, invoked, loaded, dbAtStart,
                    evCreated, fileOrigin, resumedFrom,
                    zodb, mig, evLog, savedStores, loadedStores >>
    /\ UNCHANGED << setups, teardowns >>
    /\ UNCHANGED uvars

\* the entries of the current event_ns, as <<container, entry>>
EventNsEntries ==
    UNION {{<<k, i[1]>> : i \in event_ns[k]} : k \in DOMAIN event_ns}

\* the next migrator of the list
CurMigrator == AllEventSteps[mig + 1]

\* event_ns.<container>[entry] = ... for every entry migrator m writes; the
\* value belongs to conference e
EventNsApply(m, e) ==
    [k \in DOMAIN event_ns |->
        event_ns[k] \cup {<<w[2], e>> : w \in {x \in EventNsWrites(m, e) : x[1] = k}}]

\* what migrator m adds to the global namespace for conference e
EventGlobalWrites(m, e) ==
    {w \in EventWork(e).writes : w[1] \in EventGlobalStore(m)}

\* context.run_step(importer): importer.bind(context); importer.run()
RunMigrator ==
    /\ pc = "running"
    /\ phase = "event"
    /\ mig < Len(AllEventSteps)
    /\ EventNsReads(CurMigrator) \subseteq EventNsEntries
    /\ event_ns' = EventNsApply(CurMigrator, CurEvent)
    /\ ns_stores' = ApplyWrites(ns_stores, EventGlobalWrites(CurMigrator, CurEvent))
    /\ evLog' = Append(evLog, <<CurEvent, CurMigrator>>)
    /\ mig' = mig + 1
    /\ UNCHANGED << pc, cfg, runs, idx, unit, phase, m_steps, ns_attrs, session,
                    db, dbPrepared, triggers, restoreFile, invoked, failed,
                    loaded, dbAtStart, evCreated, fileOrigin, resumedFrom,
                    zodb, exc, savedStores, loadedStores >>
    /\ UNCHANGED << setups, teardowns >>
    /\ UNCHANGED uvars

\* the migrator subscripts an event_ns container with an entry that no
\* earlier migrator has written: KeyError
MigratorKeyError ==
    /\ pc = "running"
    /\ phase = "event"
    /\ mig < Len(AllEventSteps)
    /\ \E r \in EventNsReads(CurMigrator) \ EventNsEntries :
        EventTryExit([type |-> "KeyError", ns |-> "event_ns", key |-> r[1]])
    /\ evLog' = Append(evLog, <<CurEvent, CurMigrator>>)
    /\ UNCHANGED << cfg, runs, idx, unit, phase, m_steps, ns_stores, ns_attrs,
                    db, dbPrepared, restoreFile, invoked, loaded, dbAtStart,
                    evCreated, fileOrigin, resumedFrom,
                    zodb, mig, event_ns, savedStores, loadedStores >>
    /\ UNCHANGED << setups, teardowns >>
    /\ UNCHANGED uvars

\* faulty variant, for sensitivity of the properties: the loop over the
\* importers stops one short
EventDoneEarly ==
    /\ pc = "running"
    /\ phase = "event"
    /\ mig >= Len(AllEventSteps) - 1
    /\ unit' = unit + 1
    /\ phase' = NextEventPhase(CurEvent)
    /\ UNCHANGED << pc, cfg, runs, idx, m_steps, ns_stores, ns_attrs, session,
                    db, dbPrepared, triggers, restoreFile, invoked, failed,
                    loaded, dbAtStart, evCreated, fileOrigin, resumedFrom,
                    zodb, mig, event_ns, evLog, exc, savedStores, loadedStores >>
    /\ UNCHANGED << setups, teardowns >>
    /\ UNCHANGED uvars

\* every migrator has run for the conference: the loop asks
\* committing_iterator for the next one
EventDone ==
    /\ pc = "running"
    /\ phase = "event"
    /\ mig = Len(AllEventSteps)
    /\ unit' = unit + 1
    /\ phase' = NextEventPhase(CurEvent)
    /\ UNCHANGED << pc, cfg, runs, idx, m_steps, ns_stores, ns_attrs, session,
                    db, dbPrepared, triggers, restoreFile, invoked, failed,
                    loaded, dbAtStart, evCreated, fileOrigin, resumedFrom,
                    zodb, mig, event_ns, evLog, exc, savedStores, loadedStores >>
    /\ UNCHANGED << setups, teardowns >>
    /\ UNCHANGED uvars

\* the end of EventImporter.migrate: teardown, fix_sequences, commit, the
\* finally clause's ENABLE TRIGGER, commit
EventFinish ==
    /\ pc = "running"
    /\ CurStep = "EventImporter"
    /\ phase = "work"
    /\ unit = Len(Work(CurStep))
    /\ CanCommit
    /\ db' = db \cup session
    /\ session' = {}
    /\ triggers' = Range(TriggerTables)
    /\ teardowns' = [m \in Range(AllEventSteps) |-> teardowns[m] + 1]
    /\ UNCHANGED setups
    /\ phase' = "end"
    /\ UNCHANGED << pc, cfg, runs, idx, unit, m_steps, ns_stores, ns_attrs,
                    dbPrepared, restoreFile, invoked, failed, loaded,
                    dbAtStart, evCreated,
                    fileOrigin, resumedFrom >>
    /\ UNCHANGED << zodb, mig, event_ns, evLog, exc, savedStores, loadedStores >>
    /\ UNCHANGED uvars

\* migrate() has nothing left to do
StepFinished ==
    \/ phase = "end"
    \/ /\ CurStep # "EventImporter"
       /\ phase = "work"
       /\ unit = Len(Work(CurStep))

\* run() returns and the driver registers the step
StepReturn ==
    /\ pc = "running"
    /\ StepFinished
    /\ m_steps' = register_step(CurStep)
    /\ idx' = idx + 1
    /\ pc' = "loop"
    /\ phase' = "none"
    /\ UNCHANGED << cfg, runs, unit, ns_stores, ns_attrs, session, db,
                    dbPrepared, triggers, restoreFile, invoked, failed, loaded,
                    dbAtStart, evCreated,
                    fileOrigin, resumedFrom >>
    /\ UNCHANGED << zodb, mig, event_ns, evLog, exc, savedStores, loadedStores >>
    /\ UNCHANGED << setups, teardowns >>
    /\ UNCHANGED uvars

\* EventImporter.migrate's `except: db.session.rollback(); raise` and its
\* finally clause are passed on the way out of the try block
InEventTry ==
    CurStep = "EventImporter" /\ phase \in {"setup", "work", "commit", "event"}

\* the event migrators in which the legacy data makes an exception happen
\* (besides the KeyErrors above): the menu migrator, whose migrate() reads
\* new_menu_data unbound for a conference with a default menu
FaultyMigrators == {"EventMenuImporter"}

\* run() raises: anywhere before the step has finished, either between two
\* units or inside the next unit after it has written (partial).  A commit
\* of a row whose key the store already holds can only raise.  In the
\* DISABLE TRIGGER loop the statement for the second table is the one that
\* fails (the loop takes a lock on each table in turn).  Between two
\* conferences of the events step nothing raises but create_event; after
\* the last one teardown or fix_sequences may.
StepRaise ==
    /\ pc = "running"
    /\ ~StepFinished
    /\ phase = "event" => /\ mig < Len(AllEventSteps)
                          /\ CurMigrator \in FaultyMigrators
    /\ phase = "disable" => mig = 1
    /\ (CurStep = "EventImporter" /\ phase = "work") => unit = NumEvents
    /\ \E partial \in BOOLEAN :
        /\ partial => /\ CurStep # "EventImporter"
                       /\ phase = "work"
                       /\ unit < Len(Work(CurStep))
        /\ IF partial
           THEN LET u == Work(CurStep)[unit + 1] IN
                /\ session' = WorkSession(u)
                /\ ns_stores' = WorkStores(u)
           ELSE /\ session' = IF InEventTry THEN {} ELSE session
                /\ UNCHANGED ns_stores
    /\ triggers' = IF InEventTry THEN Range(TriggerTables) ELSE triggers
    /\ UNCHANGED evCreated
    /\ failed' = CurStep
    /\ pc' = "except"
    /\ UNCHANGED << cfg, runs, idx, unit, phase, m_steps, ns_attrs, db,
                    dbPrepared, restoreFile, invoked, loaded, dbAtStart,
                    fileOrigin, resumedFrom >>
    /\ exc' = [type |-> "other"]
    /\ evLog' = IF phase = "event" THEN Append(evLog, <<CurEvent, CurMigrator>>)
                ELSE evLog
    /\ UNCHANGED << zodb, mig, event_ns, savedStores, loadedStores >>
    /\ UNCHANGED << setups, teardowns >>
    /\ UNCHANGED uvars

-----------------------------------------------------------------------------
(* The driver's except clause *)

\* faulty variant, for sensitivity of the properties: the restore point is saved without rolling the session back
HandlerNoRollback ==
    /\ pc = "except"
    /\ cfg.save
    /\ pc' = "saving"
    /\ UNCHANGED << cfg, runs, idx, unit, phase, m_steps, ns_stores, ns_attrs,
                    session, db, dbPrepared, triggers, restoreFile, invoked,
                    failed, loaded, dbAtStart, evCreated, fileOrigin, resumedFrom >>
    /\ UNCHANGED << zodb, mig, event_ns, evLog, exc, savedStores, loadedStores >>
    /\ UNCHANGED << setups, teardowns >>
    /\ UNCHANGED uvars

\* if save_restore: db.session.rollback()
HandlerRollback ==
    /\ pc = "except"
    /\ cfg.save
    /\ session' = {}
    /\ pc' = "saving"
    /\ UNCHANGED << cfg, runs, idx, unit, phase, m_steps, ns_stores, ns_attrs,
                    db, dbPrepared, triggers, restoreFile, invoked, failed,
                    loaded, dbAtStart, evCreated, fileOrigin, resumedFrom >>
    /\ UNCHANGED << zodb, mig, event_ns, evLog, exc, savedStores, loadedStores >>
    /\ UNCHANGED << setups, teardowns >>
    /\ UNCHANGED uvars

\* MigrationStateManager.save_restore_point(save_restore)
SaveRestorePoint ==
    /\ pc = "saving"
    /\ restoreFile' = RestoreImage
    /\ fileOrigin' = [failed |-> failed, rb |-> cfg.rb]
    /\ pc' = "raised"
    /\ UNCHANGED << cfg, runs, idx, unit, phase, m_steps, ns_stores, ns_attrs,
                    session, db, dbPrepared, triggers, invoked, failed, loaded,
                    dbAtStart, evCreated, resumedFrom >>
    /\ savedStores' = ns_stores
    /\ UNCHANGED << zodb, mig, event_ns, evLog, exc, loadedStores >>
    /\ UNCHANGED << setups, teardowns >>
    /\ UNCHANGED uvars

\* without --save-restore the exception just propagates
HandlerNoSave ==
    /\ pc = "except"
    /\ ~cfg.save
    /\ pc' = "raised"
    /\ UNCHANGED << cfg, runs, idx, unit, phase, m_steps, ns_stores, ns_attrs,
                    session, db, dbPrepared, triggers, restoreFile, invoked,
                    failed, loaded, dbAtStart, evCreated,
                    fileOrigin, resumedFrom >>
    /\ UNCHANGED << zodb, mig, event_ns, evLog, exc, savedStores, loadedStores >>
    /\ UNCHANGED << setups, teardowns >>
    /\ UNCHANGED uvars

-----------------------------------------------------------------------------

Next ==
    \/ StartProcess
    \/ DamageRestoreFile
    \/ LoadRestorePoint
    \/ LoopSkip
    \/ LoopRegisterOnly
    \/ StepInvoke
    \/ LoopEnd
    \/ EventBegin
    \/ DisableTrigger
    \/ EventSetup
    \/ EventCreate
    \/ EventSkip
    \/ EventCreateKeyError
    \/ RunMigrator
    \/ MigratorKeyError
    \/ EventDone
    \/ StepWork
    \/ StepCommit
    \/ EventFinish
    \/ StepReturn
    \/ StepRaise
    \/ HandlerRollback
    \/ SaveRestorePoint
    \/ HandlerNoSave

Spec == Init /\ [][Next]_vars

-----------------------------------------------------------------------------
(* UserImporter.migrate *)

\* UserImporter._user_from_avatar; identities are added later by migrate_users
user_from_avatar(avatar) ==
    LET email == sanitize_email(strip(lower(convert_to_unicode(avatar.email))))
        cleaned == {sanitize_email(strip(lower(convert_to_unicode(x)))) :
                        x \in avatar.secondaryEmails}
    IN [id |-> avatar.id,
        email |-> email,
        secondary_emails |->
            {x \in cleaned : x # "" /\ is_valid_mail(x) /\ x # email},
        is_blocked |-> avatar.status = "disabled",
        is_deleted |-> ~is_valid_mail(email),
        identities |-> {}]

\* The operators of _fix_collisions work on g = [users, pri, sec, raised]:
\* the User objects, the two email indexes, and the exception raised.

\* faulty variant, for sensitivity of the properties: both users are
\* deleted on every primary email collision
PrimaryCollisionBoth(g, user, avatar) ==
    LET coll == get(g.pri, user.email)
        to_delete == IF coll # NoneVal /\ ~user.is_deleted
                     THEN {user.id, coll.id} ELSE {}
    IN [g EXCEPT
          !.users = [i \in DOMAIN g.users |->
                        IF i \in to_delete
                        THEN [g.users[i] EXCEPT !.is_deleted = TRUE]
                        ELSE g.users[i]],
          !.pri = IF user.is_deleted THEN g.pri
                  ELSE setitem(g.pri, user.email, user.id)]

\* _fix_collisions, primary email collision: when exactly one of the new
\* avatar and the indexed user has identities the other one is deleted,
\* otherwise both are; the new user takes the index entry
PrimaryCollision(g, user, avatar) ==
    LET coll == get(g.pri, user.email)
        to_delete ==
            IF coll # NoneVal /\ ~user.is_deleted
            THEN IF (avatar.identities # <<>>) # (g.users[coll.id].identities # {})
                 THEN {IF avatar.identities # <<>> THEN coll.id ELSE user.id}
                 ELSE {user.id, coll.id}
            ELSE {}
    IN [g EXCEPT
          !.users = [i \in DOMAIN g.users |->
                        IF i \in to_delete
                        THEN [g.users[i] EXCEPT !.is_deleted = TRUE]
                        ELSE g.users[i]],
          !.pri = IF user.is_deleted THEN g.pri
                  ELSE setitem(g.pri, user.email, user.id)]

\* faulty variant, for sensitivity of the properties: the address stays in
\* the secondary index
PrimaryVsSecondaryKeeping(g, user) ==
    LET coll == get(g.sec, user.email) IN
    IF coll = NoneVal THEN g
    ELSE IF user.email \notin g.users[coll.id].secondary_emails
    THEN [g EXCEPT !.raised = "KeyError"]
    ELSE [g EXCEPT !.users[coll.id].secondary_emails = @ \ {user.email}]

\* _fix_collisions: the new user's primary email is taken from the user
\* that has it as a secondary email, and from the secondary index
PrimaryVsSecondary(g, user) ==
    LET coll == get(g.sec, user.email) IN
    IF coll = NoneVal THEN g
    ELSE IF user.email \notin g.users[coll.id].secondary_emails
    THEN [g EXCEPT !.raised = "KeyError"]
    ELSE [g EXCEPT !.users[coll.id].secondary_emails = @ \ {user.email},
                   !.sec = delitem(g.sec, user.email)]

\* _fix_collisions, one round of the loop over the new user's secondary
\* emails: an address that is in either index is dropped from the new user
SecondaryCollision(g, user, email) ==
    LET g1 == IF get(g.pri, email) # NoneVal
              THEN [g EXCEPT !.users[user.id].secondary_emails = @ \ {email}]
              ELSE g
        coll == get(g1.sec, email)
        g2 == IF coll = NoneVal THEN g1
              ELSE IF email \notin g1.users[user.id].secondary_emails
              THEN [g1 EXCEPT !.raised = "KeyError"]
              ELSE [g1 EXCEPT !.users[user.id].secondary_emails = @ \ {email},
                              !.sec = setitem(g1.sec, email, coll.id)]
    IN IF /\ g2.raised = ""
          /\ ~user.is_deleted
          /\ email \in g2.users[user.id].secondary_emails
       THEN [g2 EXCEPT !.sec = setitem(g2.sec, email, user.id)]
       ELSE g2

\* the loop over list(user.secondary_emails); the rounds touch different
\* keys, so the order in which the set is listed makes no difference
RECURSIVE SecondaryCollisions(_, _, _)
SecondaryCollisions(g, user, emails) ==
    IF emails = {} \/ g.raised # "" THEN g
    ELSE LET email == CHOOSE x \in emails : TRUE IN
         SecondaryCollisions(SecondaryCollision(g, user, email), user,
                             emails \ {email})

\* UserImporter._fix_collisions(user, avatar)
fix_collisions(g, user, avatar) ==
    LET g2 == PrimaryVsSecondary(PrimaryCollision(g, user, avatar), user) IN
    IF g2.raised # "" THEN g2
    ELSE SecondaryCollisions(g2, user, user.secondary_emails)

\* migrate_users, the loop over avatar.identities from the i-th on;
\* acc = [added, seen]
RECURSIVE MigrateIdentities(_, _, _)
MigrateIdentities(ids, i, acc) ==
    IF i > Len(ids) THEN acc
    ELSE LET old_identity == ids[i]
             username == lower(strip(convert_to_unicode(old_identity.login)))
             \* the provider of the identity's class ("": unsupported)
             provider == CASE old_identity.cls = "LocalIdentity" -> "indico"
                           [] old_identity.cls = "LDAPIdentity" -> "ldap"
                           [] OTHER -> ""
             identity == <<provider, username>>
             made == /\ username # ""
                     /\ provider # ""
                     /\ identity \notin acc.seen
                     /\ provider = "indico" =>
                            ~ignore_local_accounts /\ old_identity.password # ""
         IN MigrateIdentities(ids, i + 1,
                IF made THEN [added |-> acc.added \cup {identity},
                              seen |-> acc.seen \cup {identity}]
                ELSE acc)

\* Python's == between a set of avatar ids and an avatar id: values of
\* different types are never equal
PyEquals(target_av, avatar_id) == FALSE

\* UserImporter._resolve_merge_targets(avatar_id, user); r = [unresolved, amu]
RECURSIVE resolve_merge_targets(_, _, _)
resolve_merge_targets(r, avatar_id, user_id) ==
    LET hits == {source_av \in DOMAIN r.unresolved :
                    PyEquals(r.unresolved[source_av], avatar_id)}
    IN IF hits = {} THEN r
       ELSE LET source_av == CHOOSE x \in hits : TRUE IN
            resolve_merge_targets(
                resolve_merge_targets(
                    [unresolved |-> delitem(r.unresolved, source_av),
                     amu |-> setitem(r.amu, source_av, user_id)],
                    source_av, user_id),
                avatar_id, user_id)

\* the loop of migrate_users goes on to the next avatar, or ends
NextAvatar ==
    /\ apos' = apos + 1
    /\ upc' = IF apos + 1 = Len(avatars) THEN "fix_users" ELSE "users"

\* one round of the loop of migrate_users
MigrateAvatar ==
    /\ upc = "users"
    /\ apos < Len(avatars)
    /\ LET avatar == avatars[apos + 1] IN
       IF avatar.mergeTo # 0
       THEN LET merged_user == get(avatar_merged_user, avatar.mergeTo)
                waiting == IF avatar.mergeTo \in DOMAIN unresolved_merge_targets
                           THEN unresolved_merge_targets[avatar.mergeTo]
                           ELSE {}
            IN /\ IF merged_user # NoneVal
                  THEN /\ avatar_merged_user' =
                            setitem(avatar_merged_user, avatar.id, merged_user.id)
                       /\ UNCHANGED unresolved_merge_targets
                  ELSE /\ unresolved_merge_targets' =
                            setitem(unresolved_merge_targets, avatar.mergeTo,
                                    waiting \cup {avatar.id})
                       /\ UNCHANGED avatar_merged_user
               /\ NextAvatar
               /\ UNCHANGED << users, users_by_primary_email,
                               users_by_secondary_email, seen_identities, rows >>
       ELSE IF \/ avatar.status = "Not confirmed"
               \/ ~avatar.named /\ avatar.identities = <<>>
       THEN /\ NextAvatar
            /\ UNCHANGED << users, users_by_primary_email,
                            users_by_secondary_email, seen_identities, rows,
                            avatar_merged_user, unresolved_merge_targets >>
       ELSE LET user == user_from_avatar(avatar)
                g == fix_collisions([users |-> setitem(users, user.id, user),
                                     pri |-> users_by_primary_email,
                                     sec |-> users_by_secondary_email,
                                     raised |-> ""], user, avatar)
                ids == MigrateIdentities(avatar.identities, 1,
                                         [added |-> {}, seen |-> seen_identities])
                mapped == [x \in DOMAIN avatar_merged_user \cup avatar.mergeFrom
                                    \cup {avatar.id} |->
                             IF x \in avatar.mergeFrom \cup {avatar.id}
                             THEN user.id ELSE avatar_merged_user[x]]
                r == IF avatar.id \in DOMAIN unresolved_merge_targets
                     THEN resolve_merge_targets(
                              [unresolved |-> delitem(unresolved_merge_targets,
                                                      avatar.id),
                               amu |-> mapped], avatar.id, user.id)
                     ELSE [unresolved |-> unresolved_merge_targets,
                           amu |-> mapped]
            IN /\ users_by_primary_email' = g.pri
               /\ users_by_secondary_email' = g.sec
               /\ IF g.raised # ""
                  THEN /\ users' = g.users
                       /\ upc' = "raised"
                       /\ UNCHANGED << apos, seen_identities, rows,
                                       avatar_merged_user,
                                       unresolved_merge_targets >>
                  ELSE /\ users' = [g.users EXCEPT ![user.id].identities = ids.added]
                       /\ seen_identities' = ids.seen
                       /\ rows' = [rows EXCEPT ![<<"users", "users">>] =
                                        @ \cup {user.id}]
                       /\ avatar_merged_user' = r.amu
                       /\ unresolved_merge_targets' = r.unresolved
                       /\ NextAvatar
    /\ UNCHANGED << avatars, groups, ignore_local_accounts, all_groups,
                    sequences, call >>
    /\ UNCHANGED pvars

\* faulty variant, for sensitivity of the properties: the sequence is set
\* below the largest key
SetvalArgStale(maxkey) == maxkey - 1

\* the argument of setval in fix_sequences: func.max(serial_col) + 1
SetvalArg(maxkey) == maxkey + 1

\* the call sites' arguments of fix_sequences; a missing field is None
SequenceFilter(s, ts) == [schema |-> s, tables |-> ts]
UsersFilter == SequenceFilter("users", {"users"})
GroupsFilter == SequenceFilter("users", {"groups"})

\* the classes fix_sequences does not pass over
Selected(m, f) ==
    /\ "schema" \in DOMAIN f => m.schema = f.schema
    /\ "tables" \in DOMAIN f => m.tablename \in f.tables
\* [col for col in table.c if col.autoincrement and col.primary_key]
HasSerialKey(m) ==
    LET candidates == SelectSeq(m.pk, LAMBDA col : col.autoincrement)
    IN Len(candidates) = 1 /\ candidates[1].type = "Integer"

\* Importer.fix_sequences(schema, tables): setval(max(key) + 1) on the
\* sequence of every selected table; max() of an empty table is NULL and
\* setval(NULL) leaves the sequence alone
fix_sequences(f) ==
    [t \in DOMAIN sequences |->
        IF /\ \E m \in Models :
                TableOf(m) = t /\ Selected(m, f) /\ HasSerialKey(m)
           /\ rows[t] # {}
        THEN setval(SetvalArg(CHOOSE x \in rows[t] : \A y \in rows[t] : y <= x))
        ELSE sequences[t]]

\* fix_sequences, called by UserImporter.migrate after migrate_users and
\* after migrate_groups, and by later steps with their own arguments
FixSequences ==
    /\ upc \in {"fix_users", "fix_groups", "done"}
    /\ call = NoCall
    /\ \E f \in { UsersFilter, GroupsFilter, SequenceFilter("events", {"events"}),
                  [schema |-> "roombooking"], [none |-> TRUE] } :
        /\ upc = "fix_users" => f = UsersFilter
        /\ upc = "fix_groups" => f = GroupsFilter
        /\ sequences' = fix_sequences(f)
        /\ call' = IF upc = "done" THEN [op |-> "fix_sequences", arg |-> f]
                   ELSE call
    /\ upc' = CASE upc = "fix_users" -> "groups"
                [] upc = "fix_groups" -> "system"
                [] OTHER -> upc
    /\ UNCHANGED << avatars, groups, ignore_local_accounts, apos, users,
                    avatar_merged_user, users_by_primary_email,
                    users_by_secondary_email, all_groups,
                    unresolved_merge_targets, seen_identities, rows >>
    /\ UNCHANGED pvars

\* the name a local group gets: the first of name, name-0, name-1, ... that
\* is not in used_names; a name is held as <<name, n>>, n = -1 without suffix
group_name(orig_group_name, used_names) ==
    IF <<lower(orig_group_name), -1>> \notin used_names
    THEN <<orig_group_name, -1>>
    ELSE <<orig_group_name,
           CHOOSE n \in 0..Len(GroupHolder) :
              /\ <<lower(orig_group_name), n>> \notin used_names
              /\ \A k \in 0..(n - 1) : <<lower(orig_group_name), k>> \in used_names>>

\* the loop of migrate_groups from the i-th group on;
\* acc = [all_groups, used_names]
RECURSIVE migrate_groups(_, _)
migrate_groups(i, acc) ==
    IF i > Len(groups) THEN acc
    ELSE LET old_group == groups[i] IN
         IF old_group.cls # "Group" THEN migrate_groups(i + 1, acc)
         ELSE LET name == group_name(strip(convert_to_unicode(old_group.name)),
                                     acc.used_names)
                  members ==
                      {avatar_merged_user[old_group.members[j].id] :
                          j \in {x \in 1..Len(old_group.members) :
                                    /\ old_group.members[x].cls = "Avatar"
                                    /\ old_group.members[x].id
                                           \in DOMAIN avatar_merged_user}}
                  group == [id |-> old_group.id, name |-> name,
                            members |-> members]
              IN migrate_groups(i + 1,
                    [all_groups |-> setitem(acc.all_groups, group.id, group),
                     used_names |-> acc.used_names
                                        \cup {<<lower(name[1]), name[2]>>}])

\* migrate_favorite_users and migrate_admins (neither touches a namespace),
\* then migrate_groups when the legacy root has a group holder
MigrateGroups ==
    /\ upc = "groups"
    /\ IF groups = NoHolder
       THEN UNCHANGED << all_groups, rows >>
       ELSE LET done == migrate_groups(1, [all_groups |-> all_groups,
                                           used_names |-> {}])
            IN /\ all_groups' = done.all_groups
               /\ rows' = [rows EXCEPT ![<<"users", "groups">>] =
                                @ \cup DOMAIN done.all_groups]
    /\ upc' = "fix_groups"
    /\ UNCHANGED << avatars, groups, ignore_local_accounts, apos, users,
                    avatar_merged_user, users_by_primary_email,
                    users_by_secondary_email, unresolved_merge_targets,
                    seen_identities, sequences, call >>
    /\ UNCHANGED pvars

\* global_ns.users_by_email as UserImporter.migrate assigns it: the primary
\* index updated with the secondary one
users_by_email ==
    [e \in DOMAIN users_by_primary_email \cup DOMAIN users_by_secondary_email |->
        IF e \in DOMAIN users_by_secondary_email
        THEN users_by_secondary_email[e] ELSE users_by_primary_email[e]]

\* the tail of UserImporter.migrate: the system user gets id 0, the
\* identities of deleted users are deleted, commit
FinishUsers ==
    /\ upc = "system"
    /\ rows' = [rows EXCEPT ![<<"users", "users">>] = @ \cup {0}]
    /\ users' = [i \in DOMAIN users |->
                    IF users[i].is_deleted
                    THEN [users[i] EXCEPT !.identities = {}] ELSE users[i]]
    /\ upc' = "done"
    /\ UNCHANGED << avatars, groups, ignore_local_accounts, apos,
                    avatar_merged_user, users_by_primary_email,
                    users_by_secondary_email, all_groups,
                    unresolved_merge_targets, seen_identities, sequences,
                    call >>
    /\ UNCHANGED pvars

-----------------------------------------------------------------------------
(* Importer.convert_principal and the ACL migrations that use it *)

\* legacy principals: avatars of the holder and a deleted one, with and
\* without an email attribute; local groups; directory groups; a wrapper
AvatarRef(i) == [cls |-> "Avatar", id |-> i]
Principals ==
    {AvatarRef(i) : i \in 1..(NumAvatars + 1)}
    \cup {[cls |-> "Avatar", id |-> i, email |-> e] :
            i \in {1, NumAvatars + 1}, e \in RawEmails}
    \cup {[cls |-> "Group", id |-> i] : i \in 1..(Len(GroupHolder) + 1)}
    \cup {[cls |-> "LDAPGroup", name |-> "it-dep"],
          [cls |-> "AvatarUserWrapper", id |-> 1]}

\* faulty variant, for sensitivity of the properties: the proxy is made
\* for another group
GroupProxyShifted(i) == [t |-> "GroupProxy", id |-> i + 1]

\* GroupProxy(int(old_principal.id)): a local group proxy
GroupProxy(i) == [t |-> "GroupProxy", id |-> i]
Outcome(v, l, x) == [result |-> v, logged |-> l, raised |-> x]

\* faulty variant, for sensitivity of the properties: the recorded email is
\* looked up as it is
convert_principal_verbatim(old_principal) ==
    IF old_principal.cls = "Avatar"
    THEN LET mapped == get(avatar_merged_user, old_principal.id)
             by_email == mapped = NoneVal /\ "email" \in DOMAIN old_principal
             email == old_principal.email
             principal ==
                 IF ~by_email THEN mapped
                 ELSE IF email \in DOMAIN users_by_primary_email
                 THEN get(users_by_primary_email, email)
                 ELSE get(users_by_secondary_email, email)
         IN Outcome(principal,
                    (IF by_email /\ principal # NoneVal
                     THEN {<<"warning", "Using">>} ELSE {})
                    \cup (IF principal = NoneVal
                          THEN {<<"error", "doesn't exist">>} ELSE {}),
                    "")
    ELSE IF old_principal.cls = "Group"
    THEN IF old_principal.id \in DOMAIN all_groups
         THEN Outcome(GroupProxy(old_principal.id), {}, "")
         ELSE Outcome(NoneVal, {}, "AssertionError")
    ELSE IF old_principal.cls \in {"CERNGroup", "LDAPGroup", "NiceGroup"}
    THEN Outcome([t |-> "GroupProxy", name |-> old_principal.name,
                  provider |-> "default_group_provider"], {}, "")
    ELSE Outcome(NoneVal, {}, "")

\* Importer.convert_principal(old_principal)
convert_principal(old_principal) ==
    IF old_principal.cls = "Avatar"
    THEN LET mapped == get(avatar_merged_user, old_principal.id)
             by_email == mapped = NoneVal /\ "email" \in DOMAIN old_principal
             email == lower(convert_to_unicode(old_principal.email))
             principal ==
                 IF ~by_email THEN mapped
                 ELSE IF email \in DOMAIN users_by_primary_email
                 THEN get(users_by_primary_email, email)
                 ELSE get(users_by_secondary_email, email)
         IN Outcome(principal,
                    (IF by_email /\ principal # NoneVal
                     THEN {<<"warning", "Using">>} ELSE {})
                    \cup (IF principal = NoneVal
                          THEN {<<"error", "doesn't exist">>} ELSE {}),
                    "")
    ELSE IF old_principal.cls = "Group"
    THEN IF old_principal.id \in DOMAIN all_groups
         THEN Outcome(GroupProxy(old_principal.id), {}, "")
         ELSE Outcome(NoneVal, {}, "AssertionError")
    ELSE IF old_principal.cls \in {"CERNGroup", "LDAPGroup", "NiceGroup"}
    THEN Outcome([t |-> "GroupProxy", name |-> old_principal.name,
                  provider |-> "default_group_provider"], {}, "")
    ELSE Outcome(NoneVal, {}, "")

\* a step after the users step resolves a legacy principal, and may
\* resolve it again
ConvertPrincipal ==
    /\ upc = "done"
    /\ \E old_principal \in Principals :
        /\ \/ call = NoCall
           \/ call.op = "convert_principal" /\ call.arg = old_principal
        /\ call' = [op |-> "convert_principal", arg |-> old_principal,
                    out |-> convert_principal(old_principal)]
    /\ UNCHANGED << upc, avatars, groups, ignore_local_accounts, apos, users,
                    avatar_merged_user, users_by_primary_email,
                    users_by_secondary_email, all_groups,
                    unresolved_merge_targets, seen_identities, rows,
                    sequences >>
    /\ UNCHANGED pvars

\* legacy access controllers: _accessProtection and the allowed list, over
\* an avatar of the holder and a deleted avatar
AccessControllers ==
    {[accessProtection |-> p, allowed |-> l] :
        p \in {0, 1},
        l \in [1..2 -> {AvatarRef(1), AvatarRef(NumAvatars + 1)}]}

\* the timetable migrator's _convert_principal: convert_principal, then
\* users_by_email under the lower-cased email attribute
timetable_convert_principal(old_principal) ==
    LET out == convert_principal(old_principal) IN
    IF /\ out.raised = ""
       /\ out.result = NoneVal
       /\ old_principal.cls \in {"Avatar", "AvatarUserWrapper"}
       /\ "email" \in DOMAIN old_principal
       /\ lower(old_principal.email) \in DOMAIN users_by_email
    THEN Outcome(Obj("User", users_by_email[lower(old_principal.email)]),
                 out.logged \cup {<<"warning", "Using">>}, "")
    ELSE out

NoEntries == [acl |-> {}, logged |-> {}, raised |-> ""]

\* one principal of the allowed list: process_principal of the event ACL
\* and category migrators and _process_principal of the timetable migrator
\* log an unresolved principal and return; protection_from_ac asserts that
\* the principal is not None
ProcessEntry(kind, old_principal, acc) ==
    LET out == IF kind \in {"session", "contribution"}
               THEN timetable_convert_principal(old_principal)
               ELSE convert_principal(old_principal)
    IN IF out.raised # ""
       THEN [acc EXCEPT !.raised = out.raised, !.logged = @ \cup out.logged]
       ELSE IF out.result # NoneVal
       THEN [acc EXCEPT !.acl = @ \cup {out.result}, !.logged = @ \cup out.logged]
       ELSE IF kind \in {"folder", "attachment"}
       THEN [acc EXCEPT !.raised = "AssertionError", !.logged = @ \cup out.logged]
       ELSE [acc EXCEPT !.logged = @ \cup out.logged
                                     \cup {<<"warning", "does not exist">>}]

\* the loop over ac.allowed from the i-th principal on
RECURSIVE ProcessAllowed(_, _, _, _)
ProcessAllowed(kind, allowed, i, acc) ==
    IF i > Len(allowed) \/ acc.raised # "" THEN acc
    ELSE ProcessAllowed(kind, allowed, i + 1, ProcessEntry(kind, allowed[i], acc))

\* Importer.protection_from_ac(target, ac): the ACL is migrated for a
\* protected object only
protection_from_ac(kind, ac) ==
    IF ac.accessProtection = 1
    THEN ProcessAllowed(kind, ac.allowed, 1, NoEntries)
    ELSE IF ac.accessProtection \in {-1, 0} THEN NoEntries
    ELSE [NoEntries EXCEPT !.raised = "ValueError"]

\* a later step migrates the read ACL of an entity
MigrateAcl ==
    /\ upc = "done"
    /\ call = NoCall
    /\ \E kind \in {"event", "category", "session", "contribution", "folder",
                    "attachment"},
          ac \in AccessControllers :
        call' = [op |-> "acl", kind |-> kind, arg |-> ac,
                 out |-> IF kind \in {"folder", "attachment"}
                         THEN protection_from_ac(kind, ac)
                         ELSE ProcessAllowed(kind, ac.allowed, 1, NoEntries)]
    /\ UNCHANGED << upc, avatars, groups, ignore_local_accounts, apos, users,
                    avatar_merged_user, users_by_primary_email,
                    users_by_secondary_email, all_groups,
                    unresolved_merge_targets, seen_identities, rows,
                    sequences >>
    /\ UNCHANGED pvars

-----------------------------------------------------------------------------
(* The users step on every legacy holder of the bounds, followed by any    *)
(* calls of the functions above                                            *)

\* the users step is about to run on a fresh destination: the pipeline
\* variables stay as they are before the first process
UsersInit ==
    /\ PipelineIdle
    /\ zodb = "clean"
    /\ upc = "users"
    /\ \/ /\ avatars \in CollisionHolders
          /\ ignore_local_accounts \in BOOLEAN
          /\ groups = GroupHolder
       \/ /\ avatars \in MergeHolders
          /\ ignore_local_accounts = FALSE
          /\ groups \in {NoHolder, GroupHolder}
    /\ apos = 0
    /\ users = EmptyDict
    /\ avatar_merged_user = EmptyDict
    /\ users_by_primary_email = EmptyDict
    /\ users_by_secondary_email = EmptyDict
    /\ all_groups = EmptyDict
    /\ unresolved_merge_targets = EmptyDict
    /\ seen_identities = {}
    /\ rows = [t \in {TableOf(m) : m \in Models} |-> {}]
    /\ sequences = [t \in {TableOf(m) : m \in {x \in Models : HasSerialKey(x)}} |->
                        FreshSequence]
    /\ call = NoCall

UsersNext ==
    \/ MigrateAvatar
    \/ FixSequences
    \/ MigrateGroups
    \/ FinishUsers
    \/ ConvertPrincipal
    \/ MigrateAcl

SpecUsers == UsersInit /\ [][UsersNext]_vars

-----------------------------------------------------------------------------
(* Properties *)

Last(q) == q[Len(q)]
PcHandling == {"except", "saving", "raised"}

\* the completed-step list of the restore point this process loaded
RestoredSteps == IF "steps" \in DOMAIN loaded THEN Range(loaded.steps) ELSE {}

\* this process got past load_restore_point with a restore point that was
\* saved when step S had raised
ResumedAfter(S) ==
    /\ cfg.restore
    /\ pc # "start"
    /\ failed # "load"
    /\ resumedFrom.failed = S

C1_Skipped ==
    \A S \in RestoredSteps : S \notin Range(invoked) /\ S \in Range(m_steps)

C1_LoopMovesOn ==
    (pc = "loop" /\ idx <= Len(steps) /\ has_already_run(CurStep))
        => (pc' = "loop" /\ idx' = idx + 1 /\ invoked' = invoked /\ m_steps' = m_steps)

\* C1: in a run resumed from a restore point whose completed-step list
\* contains step S, run() of S is never invoked and S stays in the list until
\* the run ends; on reaching a step for which has_already_run holds, the loop
\* only moves on to the next step.
C1_IdempotentSkip == [](C1_Skipped) /\ [][C1_LoopMovesOn]_vars

C1_Witness ==
    /\ pc = "done"
    /\ cfg.restore
    /\ RestoredSteps # {}
    /\ invoked # <<>>

\* the declared order of the top-level steps, written out
DeclaredOrder ==
    << "GlobalPreEventsImporter", "UserImporter", "RoomsLocationsImporter",
       "CategoryImporter", "EventImporter", "RoomBookingsImporter",
       "GlobalPostEventsImporter", "EventSeriesImporter",
       "GlobalBadgePosterImporter" >>

DeclaredPos(S) == CHOOSE i \in 1..Len(DeclaredOrder) : DeclaredOrder[i] = S

\* C2: in every run, fresh or resumed, the steps executed form a subsequence
\* of the declared list: each is a declared step, they are invoked in strictly
\* increasing declared position (so none twice), every step invoked before
\* the latest one has finished and is registered, and the step running is
\* the one invoked last.
C2_DeclaredOrder ==
    /\ \A i \in 1..Len(invoked) : invoked[i] \in Range(DeclaredOrder)
    /\ \A i, j \in 1..Len(invoked) :
            i < j => DeclaredPos(invoked[i]) < DeclaredPos(invoked[j])
    /\ \A i \in 1..(Len(invoked) - 1) : invoked[i] \in Range(m_steps)
    /\ pc = "running" => (invoked # <<>> /\ Last(invoked) = CurStep)

C2_Witness ==
    /\ pc = "done"
    /\ cfg.restore
    /\ Len(invoked) >= 3

C3_FailedIsTerminal ==
    failed \in Range(steps) =>
        /\ pc \in PcHandling
        /\ failed \notin Range(m_steps)
        /\ invoked # <<>>
        /\ Last(invoked) = failed

C3_NoSecondInvocation ==
    (runs' = runs /\ invoked' # invoked) =>
        /\ failed = "none"
        /\ invoked' = Append(invoked, Last(invoked'))
        /\ Last(invoked') \notin Range(invoked) \cup Range(m_steps)
        /\ unit' = 0
        /\ pc = "loop" /\ pc' = "running"

C3_CompletedIsTerminal ==
    (runs' = runs /\ pc # "start") => Range(m_steps) \subseteq Range(m_steps')

\* holds: within one run a failure is terminal, a step is invoked at most
\* once and from its first unit, and registered steps stay registered
C3_WithinRun ==
    /\ [](C3_FailedIsTerminal)
    /\ [][C3_NoSecondInvocation]_vars
    /\ [][C3_CompletedIsTerminal]_vars

\* holds: a resumed run does not skip the failed step, and when it is given
\* the same room-booking source as the run that failed, the failed step is
\* the first step it invokes
C3_ResumeSameSource ==
    \A S \in Range(steps) :
        ResumedAfter(S) =>
            /\ S \notin RestoredSteps
            /\ resumedFrom.rb = cfg.rb =>
                    /\ invoked # <<>> => invoked[1] = S
                    /\ S \in Range(m_steps) => S \in Range(invoked)

\* C3: when a step's run() raises, the process only handles the exception
\* (no further step is invoked, the failed step is the last one invoked and
\* is not in the completed-step list), and a run resumed from the restore
\* point saved at that failure executes the failed step: once that run has
\* registered the step or has ended successfully, the step was invoked in it.
C3_FailureStopsPipeline ==
    /\ C3_FailedIsTerminal
    /\ \A S \in Range(steps) :
            (ResumedAfter(S) /\ (S \in Range(m_steps) \/ pc = "done"))
                => S \in Range(invoked)

\* C4: a step is in the completed-step list only if the restore point listed
\* it or its run() was invoked in this run and has returned without raising.
C4_RegisteredOnlyAfterRun ==
    \A S \in Range(m_steps) \ RestoredSteps :
        /\ S \in Range(invoked)
        /\ S # failed
        /\ ~(pc = "running" /\ CurStep = S)

\* C5: in a run resumed from the restore point saved when the events step
\* had raised, create_event and the event-scoped migrators run for no event
\* whose row was already committed when the run started.
C5_ResumeSkipsCommittedEvents ==
    ResumedAfter("EventImporter") =>
        \A e \in evCreated : Row("Event", e) \notin dbAtStart

C6_SaveAfterRollback ==
    (pc = "saving" /\ pc' # "saving") =>
        /\ session = {}
        /\ "steps" \in DOMAIN restoreFile'
        /\ failed \notin Range(restoreFile'.steps)

\* C6: whenever a restore point is written, the session has been rolled back
\* (it holds no pending row when save_restore_point is called) and the list
\* written does not contain the step that raised.
C6_RollbackBeforeSave ==
    /\ [](pc = "saving" => session = {})
    /\ [][C6_SaveAfterRollback]_vars

C6_Witness ==
    /\ pc = "saving"
    /\ failed = "UserImporter"
    /\ ns_stores["all_groups"] # {}
    /\ Row("LocalGroup", 1) \notin db

\* C7: for every key of the global namespace, what steps read through
\* attribute access is the container serialize() returns under that key.
C7_ReadIsSerialized ==
    \A k \in StoreKeys : NsRead(k) = serialize[k]

C8_SaveWrites ==
    (pc = "saving" /\ pc' # "saving") =>
        /\ DOMAIN restoreFile' = {"namespaces", "steps"}
        /\ restoreFile'.steps = m_steps
        /\ DOMAIN restoreFile'.namespaces = {"global_ns"}
        /\ restoreFile'.namespaces["global_ns"] =
                [k \in StoreKeys |-> EncodeStore(ns_stores[k])]
        /\ UNCHANGED << m_steps, ns_stores, ns_attrs, session, db >>

C8_AppendOnly ==
    (runs' = runs /\ pc # "start" /\ m_steps' # m_steps) =>
        m_steps' = Append(m_steps, CurStep)

C9_LoadSets ==
    (pc = "start" /\ pc' # "start") =>
        /\ "steps" \in DOMAIN restoreFile => m_steps' = restoreFile.steps
        /\ IF "steps" \in DOMAIN restoreFile /\ HasNsEntry(restoreFile)
           THEN /\ pc' = "loop"
                /\ \A k \in DOMAIN restoreFile.namespaces["global_ns"] :
                      ns_stores'[k] =
                          DecodeStore(restoreFile.namespaces["global_ns"][k])
           ELSE /\ pc' = "except"
                /\ failed' = "load"

C9_NoStepAfterFailedLoad ==
    failed = "load" => (invoked = <<>> /\ pc \in PcHandling)

\* C9: load_restore_point sets the completed-step list from the data and
\* every container of the registered namespace from the namespace's entry;
\* when the data has no entry for the namespace (or no step list) it raises,
\* and that run invokes no step.
C9_LoadRestorePoint == [][C9_LoadSets]_vars /\ [](C9_NoStepAfterFailedLoad)

C9_Witness ==
    /\ pc = "raised"
    /\ failed = "load"
    /\ "steps" \in DOMAIN loaded
    /\ ~HasNsEntry(loaded)
    /\ m_steps = loaded.steps
    /\ m_steps # <<>>

\* C10: a run that loaded restore data which lacks the step list, the
\* namespace's entry or one of the namespace's declared containers invokes
\* no step.
C10_PartialDataAborts ==
    (loaded # NoData /\ ~FileIntact(loaded)) => invoked = <<>>

-----------------------------------------------------------------------------
(* Namespace round trip *)

\* the step in which load_restore_point fills the fresh namespace of a
\* resumed run from a restore file that has every declared container
C11_LoadStep ==
    /\ pc = "start"
    /\ pc' = "loop"
    /\ FileIntact(restoreFile)

\* n is what reference o comes back as, given the rows of the store
C11_Resolves(o, n, store) ==
    IF o.t = "obj" /\ RowOf(o) \notin store THEN n = NoneVal ELSE n = o

\* b is value a after the round trip: a set element-wise, anything else
\* as a whole
C11_Restored(a, b, store) ==
    IF a.t = "set"
    THEN /\ b.t = "set"
         /\ \A o \in a.elems : \E n \in b.elems : C11_Resolves(o, n, store)
         /\ \A n \in b.elems : \E o \in a.elems : C11_Resolves(o, n, store)
    ELSE C11_Resolves(a, b, store)

\* container B holds the items of container A, references resolved
C11_ContainerRestored(A, B, store) ==
    /\ \A i \in A : \E j \in B : /\ C11_Restored(i[1], j[1], store)
                                 /\ C11_Restored(i[2], j[2], store)
    /\ \A j \in B : \E i \in A : /\ C11_Restored(i[1], j[1], store)
                                 /\ C11_Restored(i[2], j[2], store)

\* the serialized form of a reference
C11_Encodes(o, n) ==
    CASE o.t = "obj" -> n = [t |-> "!sqlalchemy", cls |-> o.cls, id |-> o.id]
      [] o.t = "zobj" -> n = [t |-> "!zodb", oid |-> o.oid]
      [] OTHER -> n = o

C11_EncodesValue(a, b) ==
    IF a.t = "set"
    THEN /\ b.t = "set"
         /\ \A o \in a.elems : \E n \in b.elems : C11_Encodes(o, n)
         /\ \A n \in b.elems : \E o \in a.elems : C11_Encodes(o, n)
    ELSE C11_Encodes(a, b)

C11_SaveEncodes ==
    (pc = "saving" /\ pc' # "saving") =>
        \A k \in StoreKeys :
            LET A == ns_stores[k]
                F == restoreFile'.namespaces[GlobalNsName][k] IN
            /\ \A i \in A : \E j \in F : /\ C11_EncodesValue(i[1], j[1])
                                         /\ C11_EncodesValue(i[2], j[2])
            /\ \A j \in F : \E i \in A : /\ C11_EncodesValue(i[1], j[1])
                                         /\ C11_EncodesValue(i[2], j[2])

C11_LoadRestores ==
    C11_LoadStep =>
        \A k \in StoreKeys :
            C11_ContainerRestored(savedStores[k], ns_stores'[k], db)

-----------------------------------------------------------------------------
(* Keys of the global namespace *)

\* C12: the keys the global namespace holds (the keys of serialize()) are
\* the declared ones at every point of every run, whatever steps and loads
\* have happened, no declared key is shadowed by an instance attribute, and
\* a KeyError raised by reading the namespace names an undeclared key.
C12_KeysFixed ==
    /\ DOMAIN serialize = StoreKeys
    /\ (DOMAIN ns_attrs) \cap StoreKeys = {}
    /\ (exc.type = "KeyError" /\ exc.ns = GlobalNsName) => exc.key \notin StoreKeys

-----------------------------------------------------------------------------
(* The per-event loop of the events step *)

\* position of migrator m in the list _get_all_steps returns
C13_Pos(m) == CHOOSE j \in 1..Len(AllEventSteps) : AllEventSteps[j] = m

\* the migrators logged for conference e, in the order they ran
C13_RunsFor(e) == SelectSeq(evLog, LAMBDA x : x[1] = e)

\* the conference a migrator is running for, or raised for
C13_InFlight(e) ==
    /\ e = CurEvent
    /\ idx <= Len(steps)
    /\ CurStep = "EventImporter"
    /\ \/ pc = "running" /\ phase = "event"
       \/ failed = "EventImporter"

\* the number of conferences that were not skipped before conference e
C13_Rank(e) == Cardinality({x \in evCreated : x < e})

\* the log is made of runs of the list, conference after conference: an
\* entry at place i is the migrator at place i of the list, counted
\* cyclically, for the conference that many whole lists after the first
C13_InOrderAt(i) ==
    /\ evLog[i][1] \in evCreated
    /\ C13_Rank(evLog[i][1]) = (i - 1) \div Len(AllEventSteps)
    /\ evLog[i][2] = AllEventSteps[((i - 1) % Len(AllEventSteps)) + 1]

\* the newest entry is in its place
C13_LogInOrder == evLog # <<>> => C13_InOrderAt(Len(evLog))

\* the log grows by one entry at its end, and the conferences are started
\* in increasing order, so entries once in place stay in place
C13_LogGrows ==
    runs' = runs =>
        /\ evLog' # evLog =>
                /\ Len(evLog') = Len(evLog) + 1
                /\ SubSeq(evLog', 1, Len(evLog)) = evLog
        /\ evCreated' # evCreated =>
                \E e \in evCreated' :
                    /\ evCreated' = evCreated \cup {e}
                    /\ \A x \in evCreated : x < e

\* the whole list has run for a conference that was not skipped
C13_AllRan ==
    \A e \in evCreated :
        ~C13_InFlight(e) =>
            Len(evLog) >= (C13_Rank(e) + 1) * Len(AllEventSteps)

\* once something has raised, this process runs no migrator and starts no
\* conference
C13_StopsAtRaise ==
    (failed # "none" /\ runs' = runs) =>
        (evLog' = evLog /\ evCreated' = evCreated)

\* C13: for every conference that is not skipped, each migrator of
\* _get_all_steps is run once, for that conference, in the order of the
\* list; all migrators of one conference run before any migrator of the
\* next; once a migrator has raised no migrator runs and no conference is
\* started.
C13_MigratorsOncePerEvent ==
    /\ [](C13_LogInOrder /\ C13_AllRan)
    /\ [][C13_LogGrows /\ C13_StopsAtRaise]_vars

C13_Witness ==
    /\ failed = "EventImporter"
    /\ exc.type = "other"
    /\ zodb = "clean"
    /\ evCreated = {1, 2, 3}
    /\ Len(evLog) = 2 * Len(AllEventSteps) + 11
    /\ Last(evLog) = <<3, "EventMenuImporter">>

-----------------------------------------------------------------------------
(* Order of the event migrators and the event-local namespace *)

\* migrator w writes the entry, or the container, for some conference
C14_WritesEntry(w, r) == \E e \in 1..NumEvents : r \in EventNsWrites(w, e)
C14_WritesContainer(w, k) ==
    \E e \in 1..NumEvents : \E r \in EventNsWrites(w, e) : r[1] = k

\* migrator m comes after the migrators that write what it reads
C14_ReadersAfterWriters(m) ==
    \A w \in Range(AllEventSteps) \ {m} :
        /\ (\E r \in EventNsReads(m) : C14_WritesEntry(w, r))
                => C13_Pos(w) < C13_Pos(m)
        /\ (\E k \in EventNsSoftReads(m) : C14_WritesContainer(w, k))
                => C13_Pos(w) < C13_Pos(m)

\* C14: in the order of _get_all_steps every migrator that reads an
\* event-local entry comes after the migrator that writes it, and no
\* migrator raises KeyError for an event-local entry that an earlier
\* migrator is responsible for writing.
C14_NoMissingEntry ==
    /\ evLog # <<>> => C14_ReadersAfterWriters(Last(evLog)[2])
    /\ ~(/\ exc.type = "KeyError"
         /\ exc.ns = "event_ns"
         /\ \E w \in Range(AllEventSteps) :
                /\ C13_Pos(w) < C13_Pos(Last(evLog)[2])
                /\ C14_WritesContainer(w, exc.key))

-----------------------------------------------------------------------------
(* Order of the top-level steps *)

\* a step's run() has been entered and has neither returned nor raised
C15_Executing(S) == pc = "running" /\ CurStep = S

\* C15: while a top-level step executes, in a fresh or a resumed run, every
\* step declared before it is in the completed-step list; in particular the
\* users step is in the list while rooms, categories, events or room
\* bookings execute, and the rooms and categories steps are in the list
\* while the events step executes.
C15_PredecessorsCompleted ==
    /\ pc = "running" =>
            \A j \in 1..(idx - 1) : steps[j] \in Range(m_steps)
    /\ \A S \in {"RoomsLocationsImporter", "CategoryImporter", "EventImporter",
                  "RoomBookingsImporter"} :
            C15_Executing(S) => "UserImporter" \in Range(m_steps)
    /\ C15_Executing("EventImporter") =>
            {"RoomsLocationsImporter", "CategoryImporter"} \subseteq Range(m_steps)

C15_Witness ==
    /\ C15_Executing("EventImporter")
    /\ cfg.restore
    /\ invoked = << "EventImporter" >>
    /\ resumedFrom.failed = "EventImporter"
    /\ Len(m_steps) = 4

-----------------------------------------------------------------------------
(* Lifetime of the event-local namespace *)

\* a migrator is about to run, or has run, for the conference of the loop
C16_Migrating == pc = "running" /\ phase = "event"

\* C16: when the first migrator runs for a conference every container of
\* its event_ns is empty, and whatever event_ns holds while the migrators
\* of a conference run was written for that conference.
C16_FreshEventNs ==
    C16_Migrating =>
        /\ DOMAIN event_ns = EventStoreKeys
        /\ mig = 0 => \A k \in EventStoreKeys : event_ns[k] = {}
        /\ \A k \in EventStoreKeys : \A i \in event_ns[k] : i[2] = CurEvent

C16_Witness ==
    /\ C16_Migrating
    /\ CurEvent = 2
    /\ mig = 1
    /\ zodb = "clean"
    /\ Len(evLog) = Len(AllEventSteps) + 1
    /\ \A k \in EventStoreKeys : event_ns[k] = {}

-----------------------------------------------------------------------------
(* Conferences without a category *)

\* the loop of migrate_event_data is at a conference without a mapped
\* category and migrate_broken_events is not set
C17_AtOrphan ==
    /\ pc = "running"
    /\ idx <= Len(steps)
    /\ CurStep = "EventImporter"
    /\ phase = "work"
    /\ unit < NumEvents
    /\ Orphan(CurEvent)
    /\ ~cfg.broken

\* nothing is created and no migrator runs for such a conference
C17_NothingForOrphan ==
    ~cfg.broken =>
        \A e \in 1..NumEvents :
            Orphan(e) =>
                /\ e \notin evCreated
                /\ Row("Event", e) \notin (session \cup db)
                /\ \A i \in 1..Len(evLog) : evLog[i][1] # e

\* the loop goes on to the next conference with nothing added
C17_SkipContinues ==
    (C17_AtOrphan /\ pc' = "running") =>
        /\ unit' = unit + 1
        /\ failed' = "none"
        /\ UNCHANGED << session, evCreated, evLog, ns_stores >>

\* when the events step has returned, every other conference was migrated
C17_OthersProcessed ==
    (/\ ~cfg.broken
     /\ "EventImporter" \in Range(invoked)
     /\ "EventImporter" \in Range(m_steps)) =>
        \A e \in 1..NumEvents :
            ~Orphan(e) =>
                /\ e \in evCreated
                /\ Row("Event", e) \in db
                /\ Len(C13_RunsFor(e)) = Len(AllEventSteps)

\* C17: with migrate_broken_events unset, for a conference whose category
\* is missing or not mapped no event is created and no migrator runs, the
\* loop goes on to the next conference without the step failing, and the
\* conferences after it are migrated.
C17_OrphanSkipped ==
    /\ [](C17_NothingForOrphan /\ C17_OthersProcessed)
    /\ [][C17_SkipContinues]_vars

C17_Witness ==
    /\ zodb = "orphan"
    /\ ~cfg.broken
    /\ "EventImporter" \in Range(invoked)
    /\ "EventImporter" \in Range(m_steps)
    /\ evCreated = (1..NumEvents) \ {OddEvent}
    /\ Row("Event", NumEvents) \in db
    /\ Row("Event", OddEvent) \notin db


\* C18: with migrate_broken_events set, create_event does not fail for a
\* conference whose category cannot be resolved: the event is created (under
\* the Lost & Found category) and migrated like any other, so that when the
\* events step has returned every such conference has its event and the
\* full list of migrators has run for it.
C18_OrphanCreated ==
    cfg.broken =>
        \A e \in 1..NumEvents :
            Orphan(e) =>
                /\ ~(/\ failed = "EventImporter"
                     /\ CurEvent = e
                     /\ exc.type = "KeyError"
                     /\ exc.ns = GlobalNsName)
                /\ ("EventImporter" \in Range(invoked) /\
                    "EventImporter" \in Range(m_steps)) =>
                        /\ e \in evCreated
                        /\ Len(C13_RunsFor(e)) = Len(AllEventSteps)

-----------------------------------------------------------------------------
(* The consistent_timetable trigger *)

\* EventImporter.migrate() is executing
C19_InMigrate == pc = "running" /\ idx <= Len(steps) /\ CurStep = "EventImporter"

\* the loop over the conferences, and the commits that belong to it
C19_PerEventWork == C19_InMigrate /\ phase \in {"work", "commit", "event"}

\* C19: whenever EventImporter.migrate() is not executing (it has not been
\* called, it has returned, or it has raised after any of its DISABLE
\* TRIGGER statements) the trigger is enabled on all four tables, and during
\* the per-event work it is disabled on all four.
C19_TriggersPaired ==
    /\ ~C19_InMigrate => triggers = Range(TriggerTables)
    /\ C19_PerEventWork => triggers = {}

-----------------------------------------------------------------------------
(* Commits of the events step *)

\* the try block of EventImporter.migrate is executing, or has raised
C20_InLoop ==
    /\ idx <= Len(steps)
    /\ CurStep = "EventImporter"
    /\ phase \in {"work", "commit", "event"}
    /\ pc = "running" \/ failed = "EventImporter"

\* the conferences of the iteration whose batch has been committed
C20_Committed ==
    IF phase = "commit" THEN ((unit - 1) \div CommitEvery) * CommitEvery
    ELSE IF unit = NumEvents THEN NumEvents
    ELSE (unit \div CommitEvery) * CommitEvery

-----------------------------------------------------------------------------
(* C21: setup and teardown of the event migrators *)

\* the loop of migrate_event_data over the conferences is running
C21_InLoop ==
    /\ pc = "running"
    /\ idx <= Len(steps)
    /\ CurStep = "EventImporter"
    /\ phase \in {"work", "commit", "event"}

\* the number of migrate() calls migrator m received for conference e
C21_Migrations(m, e) == Len(SelectSeq(evLog, LAMBDA x : x = <<e, m>>))

\* while conferences are processed every migrator has had its one setup()
\* and no teardown() yet
C21_SetUpInLoop ==
    /\ \A m \in Range(AllEventSteps) : setups[m] <= 1 /\ teardowns[m] <= 1
    /\ C21_InLoop =>
        \A m \in Range(AllEventSteps) : setups[m] = 1 /\ teardowns[m] = 0

\* setup() is called before the first conference, teardown() after the last
\* one, when the migrator has migrated every conference that was not
\* skipped exactly once
C21_CallsInPlace ==
    \A m \in Range(AllEventSteps) :
        /\ setups'[m] > setups[m] =>
            /\ evLog = <<>> /\ evCreated = {} /\ unit = 0
            /\ setups[m] = 0
        /\ teardowns'[m] > teardowns[m] =>
            /\ unit = NumEvents
            /\ setups[m] = 1 /\ teardowns[m] = 0
            /\ \A e \in 1..NumEvents :
                /\ e \in evCreated \/ (Orphan(e) /\ ~cfg.broken)
                /\ C21_Migrations(m, e) = IF e \in evCreated THEN 1 ELSE 0

\* C21: in the events step every event migrator's setup() is called exactly
\* once, before the first conference is processed, and its teardown() at
\* most once, only after the last conference has been processed; between
\* the two its migrate() is called once per conference that is not skipped
C21_SetupTeardown == [](C21_SetUpInLoop) /\ [][C21_CallsInPlace]_vars

\* the events step has torn its migrators down after a loop that skipped a
\* conference and migrated the others
C21_Witness ==
    /\ \A m \in Range(AllEventSteps) : setups[m] = 1 /\ teardowns[m] = 1
    /\ Cardinality(evCreated) = NumEvents - 1
    /\ Len(evLog) = (NumEvents - 1) * Len(AllEventSteps)

-----------------------------------------------------------------------------
(* C22: convert_principal on a legacy user *)

\* the last call was convert_principal on a legacy user
C22_UserResolved == call.op = "convert_principal" /\ call.arg.cls = "Avatar"

\* the key a legacy user's recorded email is looked up under
C22_Recorded(old_principal) == lower(convert_to_unicode(old_principal.email))

\* the result is the user mapped from the legacy id; failing that the user
\* the primary index has under the recorded email, failing that the user
\* the secondary index has; failing that nothing, with an error logged and
\* no exception
C22_ResolutionOrder ==
    C22_UserResolved =>
        LET old_principal == call.arg
            has_email == "email" \in DOMAIN old_principal
        IN /\ call.out.raised = ""
           /\ IF old_principal.id \in DOMAIN avatar_merged_user
              THEN call.out.result =
                       Obj("User", avatar_merged_user[old_principal.id])
              ELSE IF /\ has_email
                      /\ C22_Recorded(old_principal) \in DOMAIN users_by_primary_email
              THEN call.out.result =
                       Obj("User", users_by_primary_email[C22_Recorded(old_principal)])
              ELSE IF /\ has_email
                      /\ C22_Recorded(old_principal) \in DOMAIN users_by_secondary_email
              THEN call.out.result =
                       Obj("User", users_by_secondary_email[C22_Recorded(old_principal)])
              ELSE /\ call.out.result = NoneVal
                   /\ <<"error", "doesn't exist">> \in call.out.logged

\* a call of convert_principal leaves every namespace container as it is,
\* and a second call on the same reference has the outcome of the first
C22_NoEffect ==
    call'.op = "convert_principal" /\ upc = "done" =>
        /\ UNCHANGED << avatar_merged_user, users_by_primary_email,
                        users_by_secondary_email, all_groups >>
        /\ (call.op = "convert_principal" /\ call.arg = call'.arg) =>
                call'.out = call.out

\* C22: convert_principal on a legacy user reference returns the user
\* mapped from its legacy id when there is one; otherwise the user indexed
\* under its lower-cased recorded email, the primary-email index first,
\* then the secondary-email index; otherwise it logs that the user does not
\* exist and returns nothing without raising.  It never modifies a
\* namespace, and resolving the same reference again gives the same result
C22_ConvertUser == [](C22_ResolutionOrder) /\ [][C22_NoEffect]_vars

\* a deleted avatar was resolved through the secondary index, under an
\* address recorded in upper case
C22_Witness ==
    /\ C22_UserResolved
    /\ call.arg.id \notin DOMAIN avatar_merged_user
    /\ "email" \in DOMAIN call.arg
    /\ call.arg.email # C22_Recorded(call.arg)
    /\ C22_Recorded(call.arg) \notin DOMAIN users_by_primary_email
    /\ call.out.result # NoneVal

-----------------------------------------------------------------------------
(* C23: convert_principal on a local group *)

\* the last call was convert_principal on a local group
C23_GroupResolved == call.op = "convert_principal" /\ call.arg.cls = "Group"

\* C23: resolving a local-group reference whose id is not in the all-groups
\* container raises an assertion failure (nothing is returned, neither None
\* nor a group proxy); resolving one whose id is in it returns a local
\* group proxy carrying that id
C23_GroupAsserted ==
    C23_GroupResolved =>
        IF call.arg.id \in DOMAIN all_groups
        THEN /\ call.out.raised = ""
             /\ call.out.result = [t |-> "GroupProxy", id |-> call.arg.id]
        ELSE call.out.raised = "AssertionError"

\* a group of the holder that migrate_groups passed over was resolved after
\* the local groups had been migrated
C23_Witness ==
    /\ C23_GroupResolved
    /\ all_groups # EmptyDict
    /\ \E i \in 1..Len(groups) : groups[i].id = call.arg.id
    /\ call.out.raised = "AssertionError"

-----------------------------------------------------------------------------
(* C24: ACL entries whose user cannot be resolved *)

\* the last call migrated the ACL of an entity whose legacy access
\* controller is in protected mode
C24_AclMigrated == call.op = "acl" /\ call.arg.accessProtection = 1

\* the users of the allowed list the migrator of that entity resolves
C24_Resolvable ==
    {call.arg.allowed[i] : i \in
        {j \in 1..Len(call.arg.allowed) :
            (IF call.kind \in {"session", "contribution"}
             THEN timetable_convert_principal(call.arg.allowed[j])
             ELSE convert_principal(call.arg.allowed[j])).result # NoneVal}}

\* C24: for every ACL-bearing entity (event, category, session,
\* contribution, attachment folder, attachment) an ACL entry whose user
\* cannot be resolved is logged and left out of the resulting ACL, the
\* other entries are still migrated, and the migration of the entity goes
\* on without an exception
C24_UnresolvedLeftOut ==
    C24_AclMigrated =>
        /\ call.out.raised = ""
        /\ call.out.acl = {convert_principal(p).result : p \in C24_Resolvable}
        /\ C24_Resolvable # Range(call.arg.allowed) => call.out.logged # {}

-----------------------------------------------------------------------------
(* C25: primary email collisions *)

\* the loop of migrate_users has ended
C25_UsersMigrated == upc = "fix_users"

\* the pairs of avatars, first and second in iteration order, that were
\* migrated to users with the same valid primary email, no other user
\* having that email
C25_Colliding ==
    {p \in (1..NumAvatars) \X (1..NumAvatars) :
        /\ p[1] < p[2]
        /\ p[1] \in DOMAIN users /\ p[2] \in DOMAIN users
        /\ users[p[1]].email = users[p[2]].email
        /\ is_valid_mail(users[p[1]].email)
        /\ \A k \in DOMAIN users \ {p[1], p[2]} :
                users[k].email # users[p[1]].email}

\* the legacy avatar lists login identities
C25_HasIdentities(i) == avatars[i].identities # <<>>
\* login identities were migrated for the user
C25_HasMigratedIdentities(i) == users[i].identities # {}

\* the claim as stated: exactly one of two colliding users ends up deleted,
\* the one without login identities when exactly one has them, and both
\* only when neither has login identities
C25_ExactlyOneDeleted ==
    C25_UsersMigrated =>
        \A p \in C25_Colliding :
            LET first == p[1]
                second == p[2]
            IN IF ~C25_HasIdentities(first) /\ ~C25_HasIdentities(second)
               THEN users[first].is_deleted /\ users[second].is_deleted
               ELSE /\ users[first].is_deleted # users[second].is_deleted
                    /\ C25_HasIdentities(first) # C25_HasIdentities(second) =>
                          (users[first].is_deleted <=> ~C25_HasIdentities(first))

\* C25: when two legacy users with valid, equal primary emails are
\* migrated, both end up marked deleted if both or neither have login
\* identities, and only the one without if exactly one has; the user
\* migrated first counts as having login identities when one was migrated
\* for it, the user migrated second when its legacy avatar lists one
C25_DeletedOnCollision ==
    C25_UsersMigrated =>
        \A p \in C25_Colliding :
            LET first == p[1]
                second == p[2]
            IN IF C25_HasMigratedIdentities(first) = C25_HasIdentities(second)
               THEN users[first].is_deleted /\ users[second].is_deleted
               ELSE /\ users[first].is_deleted = C25_HasIdentities(second)
                    /\ users[second].is_deleted = C25_HasMigratedIdentities(first)

\* two users collided, both with login identities, and both were deleted;
\* in the same holder a third user has another address
C25_Witness ==
    /\ C25_UsersMigrated
    /\ Cardinality(DOMAIN users) = NumAvatars
    /\ \E p \in C25_Colliding :
        /\ C25_HasMigratedIdentities(p[1]) /\ C25_HasIdentities(p[2])
        /\ users[p[1]].is_deleted /\ users[p[2]].is_deleted

-----------------------------------------------------------------------------
(* C26: fix_sequences *)

\* this step is a call of fix_sequences
C26_Called ==
    \/ upc \in {"fix_users", "fix_groups"} /\ upc' # upc
    \/ upc = "done" /\ call = NoCall /\ call'.op = "fix_sequences"

\* the arguments of that call
C26_Filter ==
    IF upc = "fix_users" THEN UsersFilter
    ELSE IF upc = "fix_groups" THEN GroupsFilter
    ELSE call'.arg

\* the table of the class owns a sequence: an integer key that counts up
C26_Serial(m) == Len(m.pk) = 1 /\ m.pk[1].type = "Integer" /\ m.pk[1].autoincrement

\* the table is inside the schema/table filter
C26_InFilter(m) ==
    /\ "schema" \in DOMAIN C26_Filter => m.schema = C26_Filter.schema
    /\ "tables" \in DOMAIN C26_Filter => m.tablename \in C26_Filter.tables

\* when fix_sequences returns, a selected table with a single
\* auto-incrementing integer key and at least one row generates a next key
\* above every key present; a table outside the filter keeps its sequence
C26_Repaired ==
    C26_Called =>
        \A m \in Models :
            /\ (C26_InFilter(m) /\ C26_Serial(m) /\ rows[TableOf(m)] # {}) =>
                    \A k \in rows[TableOf(m)] : nextval(sequences'[TableOf(m)]) > k
            /\ (~C26_InFilter(m) /\ TableOf(m) \in DOMAIN sequences) =>
                    sequences'[TableOf(m)] = sequences[TableOf(m)]

\* C26: after fix_sequences(schema, tables) returns, for every selected
\* table that has a single auto-incrementing integer primary key and at
\* least one row, the next value of the table's sequence is strictly
\* greater than the maximum key in the table; tables outside the
\* schema/table filter keep their sequence value
C26_SequencesFixed == [][C26_Repaired]_vars

\* the users table's sequence has been moved past the keys taken from the
\* legacy ids, the one of the groups table has not been touched
C26_Witness ==
    /\ upc = "groups"
    /\ NumAvatars \in rows[<<"users", "users">>]
    /\ nextval(sequences[<<"users", "users">>]) > NumAvatars
    /\ sequences[<<"users", "groups">>] = FreshSequence

-----------------------------------------------------------------------------
(* C29: merged avatars *)

\* the avatar the chain of merges that starts at avatar a ends in, 0 when
\* the chain does not end within n merges
RECURSIVE C29_MergedInto(_, _)
C29_MergedInto(a, n) ==
    IF avatars[a].mergeTo = 0 THEN a
    ELSE IF n = 0 THEN 0
    ELSE C29_MergedInto(avatars[a].mergeTo, n - 1)

\* C29: after the users step, for every legacy avatar A marked as merged
\* into avatar B, directly or through a chain of merges, where B was
\* migrated to user U, avatar_merged_user maps A's id to U, whether A is
\* iterated before or after B and whether or not B lists A among the
\* avatars merged into it
C29_MergedMapped ==
    upc = "done" =>
        \A a \in 1..NumAvatars :
            LET b == C29_MergedInto(a, NumAvatars) IN
            (avatars[a].mergeTo # 0 /\ b # 0 /\ b \in DOMAIN users) =>
                /\ a \in DOMAIN avatar_merged_user
                /\ avatar_merged_user[a] = avatar_merged_user[b]

-----------------------------------------------------------------------------
(* C30: the two email indexes *)

\* C30: after migrating any sequence of users no email address is a key of
\* both users_by_primary_email and users_by_secondary_email, and every key
\* of users_by_secondary_email is in the secondary-email list of the user
\* it maps to
C30_IndexesDisjoint ==
    /\ upc # "raised"
    /\ DOMAIN users_by_primary_email \cap DOMAIN users_by_secondary_email = {}
    /\ \A e \in DOMAIN users_by_secondary_email :
            /\ users_by_secondary_email[e] \in DOMAIN users
            /\ e \in users[users_by_secondary_email[e]].secondary_emails

\* a user lost a secondary address to the primary address of a user
\* migrated after it, and still has another one in the secondary index
C30_Witness ==
    /\ apos = NumAvatars
    /\ \E i \in DOMAIN users, j \in DOMAIN users :
        /\ i < j
        /\ users[j].email \in user_from_avatar(avatars[i]).secondary_emails
        /\ users[j].email \notin users[i].secondary_emails
        /\ users_by_primary_email[users[j].email] = j
    /\ \E e \in DOMAIN users_by_secondary_email :
        users[users_by_secondary_email[e]].secondary_emails = {e}

-----------------------------------------------------------------------------
(* C27: a fresh run refuses a destination that has data *)

\* the step taken starts a process
C27_Starts == runs' = runs + 1

\* the destination has tables and a checked model has rows
C27_HasData == dbPrepared /\ \E r \in db : r.cls \in CheckedModels

\* a process without a restore file started on a destination with data ends
\* in the fatal error, and a process ends in it in no other case: with a
\* restore file the destination is not looked at
C27_Checked ==
    C27_Starts => (pc' = "fatal" <=> (~cfg'.restore /\ C27_HasData))

\* the process that ended in the fatal error ran no step and wrote nothing
C27_NothingRun ==
    pc = "fatal" => /\ invoked = <<>>
                    /\ m_steps = <<>>
                    /\ session = {}
                    /\ db = dbAtStart
                    /\ ~cfg.restore

\* C27: In a run without a restore file on a destination that has tables
\* and rows of a checked model, the run ends with a fatal error before any
\* step executes and nothing is written; only a run with a restore file
\* passes over the check.
C27_FatalOnData == [](C27_NothingRun) /\ [][C27_Checked]_vars

\* a fresh run was refused on the rows an earlier, failed run had committed
C27_Witness ==
    /\ pc = "fatal"
    /\ ~cfg.restore
    /\ runs > 1
    /\ \E r \in db : r.cls \in CheckedModels

\* a run with a restore file went on to its steps on a destination with data
C27_RestoreWitness ==
    /\ cfg.restore
    /\ pc = "loop"
    /\ \E r \in dbAtStart : r.cls \in CheckedModels

-----------------------------------------------------------------------------
(* C28: the references of a saved restore point *)

\* the destination entities a container value refers to
C28_Refs(v) ==
    IF v.t = "obj" THEN {v}
    ELSE IF v.t = "set" THEN {o \in v.elems : o.t = "obj"}
    ELSE {}

\* the destination entities the containers of a namespace refer to
C28_RefsOf(stores) ==
    UNION {C28_Refs(i[1]) \cup C28_Refs(i[2]) : i \in UNION {stores[k] : k \in StoreKeys}}

\* the step that writes the restore point, after the rollback
C28_SaveStep == pc = "saving" /\ pc' = "raised"

\* C28: When a restore point is saved after a step failed and the session
\* was rolled back, every destination entity the saved namespaces refer to
\* has its row in the destination store.
C28_SavedRefsExist ==
    [][C28_SaveStep => \A o \in C28_RefsOf(savedStores') : RowOf(o) \in db']_vars

====
